---------------------------- MODULE Spec2Model ----------------------------
(***************************************************************************)
(* The CSV analysis subsystem of the chatbot: the tabular parser, the      *)
(* column profiler, the chart recommender (src/lib/tools/csv/parser.ts),   *)
(* the file fetch (src/lib/tools/csv/parser.ts), the chart tool with its   *)
(* chart data builder (src/lib/ai/tools/analyze-csv.ts), the row query     *)
(* tool (src/lib/ai/tools/query-csv-rows.ts) and the prompt intent         *)
(* detection (src/lib/blob/r2.ts).                                         *)
(*                                                                         *)
(* JavaScript strings are sequences of one-character strings, compared by  *)
(* UTF-16 code unit.  JavaScript numbers are integers here: no cell text   *)
(* of the model has a digit followed by ".", "e" or "E", so none denotes   *)
(* a fraction or an exponent.  A cell is a record [kind, num, str] with    *)
(* kind "number", "string" or "undefined".                                 *)
(***************************************************************************)
EXTENDS Integers, Sequences, FiniteSets, TLC

VARIABLES
    csvFiles,       \* queryCSVRows({csvFiles}): the conversation's CSV files
    request,        \* the arguments of one execute() call
    storage,        \* what the object store answers to the fetch
    pc,             \* position of the execute() call
    actualFileUrl,  \* the local of execute(), set before the fetch
    result,         \* the value execute() returned
    column,         \* analyzeColumn: the profiled column of the fetched table
    stats,          \* analyzeColumn: the ColumnStats it returned
    columnStats,    \* generateVisualizationRecommendations: its argument
    recommendation, \* generateVisualizationRecommendations: its result
    analyzeRequest, \* analyzeCSV: the chartType and columns arguments
    chart,          \* analyzeCSV: the chart configuration it built
    intentArgs,     \* analyzeIntent: its arguments
    intent,         \* analyzeIntent: the IntentAnalysis it returned
    table,          \* parseCSV: the ParsedCSV it returned, or that it threw
    warnings,       \* parseCSV: the errors it logged with console.warn
    calls,          \* analyzeCSV: the execute() calls in progress
    session,        \* analyzeCSV({session}): session?.user?.id, "" if none
    effects,        \* analyzeCSV: stream parts, saves and returns, in order
    documents,      \* the document store saveDocument writes to
    nextId,         \* generateUUID: the number of ids handed out
    bucket,         \* analyzeCSV: the answer of the object store for each key
    fetchLog        \* the calls of fetchCSVContent, in order

vars == <<csvFiles, request, storage, pc, actualFileUrl, result,
          column, stats, columnStats, recommendation, analyzeRequest, chart,
          intentArgs, intent, table, warnings, calls, session, effects,
          documents, nextId, bucket, fetchLog>>

parseVars == <<table, warnings>>

analyzeVars == <<calls, session, effects, documents, nextId, bucket>>

Range(f) == {f[i] : i \in DOMAIN f}

Min(a, b) == IF a < b THEN a ELSE b

Max(a, b) == IF a > b THEN a ELSE b

(***************************************************************************)
(* Strings.                                                                *)
(***************************************************************************)
\* the characters of the model with their UTF-16 code units
CharTable ==
    << <<" ", 32>>, <<"'", 39>>, <<"+", 43>>, <<"-", 45>>, <<".", 46>>,
       <<"/", 47>>, <<"0", 48>>, <<"1", 49>>, <<"2", 50>>, <<"3", 51>>,
       <<"4", 52>>, <<"5", 53>>, <<"6", 54>>, <<"7", 55>>, <<"8", 56>>,
       <<"9", 57>>, <<"A", 65>>, <<"B", 66>>, <<"C", 67>>, <<"D", 68>>,
       <<"E", 69>>, <<"F", 70>>, <<"G", 71>>, <<"H", 72>>, <<"I", 73>>,
       <<"J", 74>>, <<"K", 75>>, <<"L", 76>>, <<"M", 77>>, <<"N", 78>>,
       <<"O", 79>>, <<"P", 80>>, <<"Q", 81>>, <<"R", 82>>, <<"S", 83>>,
       <<"T", 84>>, <<"U", 85>>, <<"V", 86>>, <<"W", 87>>, <<"X", 88>>,
       <<"Y", 89>>, <<"Z", 90>>, <<"_", 95>>, <<"a", 97>>, <<"b", 98>>,
       <<"c", 99>>, <<"d", 100>>, <<"e", 101>>, <<"f", 102>>, <<"g", 103>>,
       <<"h", 104>>, <<"i", 105>>, <<"j", 106>>, <<"k", 107>>,
       <<"l", 108>>, <<"m", 109>>, <<"n", 110>>, <<"o", 111>>,
       <<"p", 112>>, <<"q", 113>>, <<"r", 114>>, <<"s", 115>>,
       <<"t", 116>>, <<"u", 117>>, <<"v", 118>>, <<"w", 119>>,
       <<"x", 120>>, <<"y", 121>>, <<"z", 122>> >>

Chars == {p[1] : p \in Range(CharTable)}

CharCodeOf == [c \in Chars |-> (CHOOSE p \in Range(CharTable) : p[1] = c)[2]]

CharCode(c) == CharCodeOf[c]

Digits == <<"0", "1", "2", "3", "4", "5", "6", "7", "8", "9">>

IsDigit(c) == c \in Range(Digits)

DigitValue(c) == CharCode(c) - CharCode("0")

\* String.prototype.toLowerCase, one code unit
LowerChar(c) ==
    IF CharCode(c) >= 65 /\ CharCode(c) <= 90
    THEN CHOOSE d \in Chars : CharCode(d) = CharCode(c) + 32
    ELSE c

toLowerCase(s) == [i \in 1..Len(s) |-> LowerChar(s[i])]

\* a < b on two strings: lexicographic by code unit
RECURSIVE StrLess(_, _)
StrLess(a, b) ==
    IF b = <<>> THEN FALSE
    ELSE IF a = <<>> THEN TRUE
    ELSE IF CharCode(Head(a)) # CharCode(Head(b))
         THEN CharCode(Head(a)) < CharCode(Head(b))
    ELSE StrLess(Tail(a), Tail(b))

StartsWith(s, p) == Len(p) <= Len(s) /\ SubSeq(s, 1, Len(p)) = p

\* String.prototype.includes
includes(s, p) ==
    \E i \in 1..(Len(s) + 1) :
        i + Len(p) - 1 <= Len(s) /\ SubSeq(s, i, i + Len(p) - 1) = p

\* the decimal digits of a non-negative integer
RECURSIVE NatToString(_)
NatToString(n) ==
    IF n < 10 THEN <<Digits[n + 1]>>
    ELSE NatToString(n \div 10) \o <<Digits[(n % 10) + 1]>>

\* String(n) for an integer n
NumberToString(n) == IF n < 0 THEN <<"-">> \o NatToString(-n) ELSE NatToString(n)

(***************************************************************************)
(* Number.parseFloat: leading white space is skipped, then an optional     *)
(* sign, then "Infinity" or the longest run of digits; what follows is     *)
(* ignored.  The result is [kind, val] with kind "nan", "infinite" or      *)
(* "finite".                                                               *)
(***************************************************************************)
RECURSIVE TrimStart(_)
TrimStart(s) ==
    IF s # <<>> /\ Head(s) = " " THEN TrimStart(Tail(s)) ELSE s

RECURSIVE DigitRun(_)
DigitRun(s) ==
    IF s # <<>> /\ IsDigit(Head(s)) THEN <<Head(s)>> \o DigitRun(Tail(s))
    ELSE <<>>

RECURSIVE DigitsValue(_, _)
DigitsValue(ds, acc) ==
    IF ds = <<>> THEN acc
    ELSE DigitsValue(Tail(ds), 10 * acc + DigitValue(Head(ds)))

InfinityText == <<"I", "n", "f", "i", "n", "i", "t", "y">>

parseFloat(s) ==
    LET t == TrimStart(s)
        signed == t # <<>> /\ Head(t) \in {"+", "-"}
        sign == IF signed /\ Head(t) = "-" THEN -1 ELSE 1
        body == IF signed THEN Tail(t) ELSE t
        run == DigitRun(body)
    IN  IF StartsWith(body, InfinityText) THEN [kind |-> "infinite", val |-> sign]
        ELSE IF run = <<>> THEN [kind |-> "nan", val |-> 0]
        ELSE [kind |-> "finite", val |-> sign * DigitsValue(run, 0)]

(***************************************************************************)
(* Cells.                                                                  *)
(***************************************************************************)
Undefined == [kind |-> "undefined", num |-> 0, str |-> <<>>]

Num(n) == [kind |-> "number", num |-> n, str |-> <<>>]

Str(s) == [kind |-> "string", num |-> 0, str |-> s]

\* String(value) for a cell
String(v) ==
    CASE v.kind = "number" -> NumberToString(v.num)
      [] v.kind = "string" -> v.str
      [] OTHER -> <<"u", "n", "d", "e", "f", "i", "n", "e", "d">>

\* row[name]: undefined when the row has no such key
Get(row, name) == IF name \in DOMAIN row THEN row[name] ELSE Undefined

(***************************************************************************)
(* parseCSV.  Papa.parse (a library) splits the text; csvContent is what   *)
(* it hands back: the header names (already trimmed) and, per data line,   *)
(* the fields of that line.  A line may have fewer fields than there are   *)
(* headers; PapaParse then leaves the missing keys unset.                  *)
(***************************************************************************)
\* parseResult.data[i]: the object PapaParse builds for one line
PapaRow(fields, line) ==
    [h \in {fields[j] : j \in 1..Min(Len(fields), Len(line))} |->
        Str(line[CHOOSE j \in 1..Len(fields) : fields[j] = h])]

\* parseResult.errors: PapaParse reports every line whose number of fields
\* differs from the number of headers
PapaErrors(csvContent) ==
    {i \in 1..Len(csvContent.data) :
        Len(csvContent.data[i]) # Len(csvContent.fields)}

isNumeric(value) ==
    IF value.kind = "undefined" \/ value.str = <<>> THEN FALSE
    ELSE parseFloat(value.str).kind = "finite"

\* isNumeric(value) ? Number.parseFloat(value) : value
ConvertCell(value) ==
    IF isNumeric(value) THEN Num(parseFloat(value.str).val) ELSE value

\* parseCSV throwing also when PapaParse reported errors
parseCSVAbortOnWarnings(csvContent) ==
    IF csvContent.data = <<>> \/ PapaErrors(csvContent) # {}
    THEN [threw |-> TRUE, headers |-> <<>>, rows |-> <<>>,
          rowCount |-> 0, columnCount |-> 0]
    ELSE LET fields == csvContent.fields
             rows == [i \in 1..Len(csvContent.data) |->
                        [h \in Range(fields) |->
                            ConvertCell(Get(PapaRow(fields, csvContent.data[i]), h))]]
         IN  [threw |-> FALSE, headers |-> fields, rows |-> rows,
              rowCount |-> Len(rows), columnCount |-> Len(fields)]

\* [threw |-> TRUE] stands for the thrown Error
parseCSV(csvContent) ==
    IF csvContent.data = <<>>
    THEN [threw |-> TRUE, headers |-> <<>>, rows |-> <<>>,
          rowCount |-> 0, columnCount |-> 0]
    ELSE LET fields == csvContent.fields
             first == PapaRow(fields, csvContent.data[1])
             \* Object.keys(parseResult.data[0])
             headers == SelectSeq(fields, LAMBDA h : h \in DOMAIN first)
             rows == [i \in 1..Len(csvContent.data) |->
                        [h \in Range(headers) |->
                            ConvertCell(Get(PapaRow(fields, csvContent.data[i]), h))]]
         IN  [threw |-> FALSE, headers |-> headers, rows |-> rows,
              rowCount |-> Len(rows), columnCount |-> Len(headers)]

(***************************************************************************)
(* The column profiler.                                                    *)
(***************************************************************************)
\* s[i], or "" past the end of s
At(s, i) == IF i >= 1 /\ i <= Len(s) THEN s[i] ELSE ""

DigitAt(s, i) == IsDigit(At(s, i))

\* ^\d{4}-\d{2}-\d{2}
IsoDatePrefix(s) ==
    /\ \A i \in {1, 2, 3, 4, 6, 7, 9, 10} : DigitAt(s, i)
    /\ At(s, 5) = "-" /\ At(s, 8) = "-"

\* \d{1,2}\/\d{1,2}\/\d{2,4} matched from position i on
SlashDateAt(s, i) ==
    /\ DigitAt(s, i) /\ At(s, i + 1) = "/" /\ DigitAt(s, i + 2)
    /\ \/ At(s, i + 3) = "/" /\ DigitAt(s, i + 4) /\ DigitAt(s, i + 5)
       \/ DigitAt(s, i + 3) /\ At(s, i + 4) = "/" /\ DigitAt(s, i + 5)
                            /\ DigitAt(s, i + 6)

\* DATE_PATTERN.test(value): the first alternative is anchored, the second not
DATE_PATTERN(s) == IsoDatePrefix(s) \/ \E i \in 1..Len(s) : SlashDateAt(s, i)

IsNull(v) == v.kind = "undefined" \/ v = Str(<<>>)

\* the counter the loop of detectColumnType adds a value to
ValueKind(v) ==
    IF IsNull(v) THEN "skipped"
    ELSE IF v.kind = "number" THEN "numeric"
    ELSE IF DATE_PATTERN(v.str) THEN "date"
    ELSE "text"

CountOf(values, kind) ==
    Cardinality({i \in 1..Len(values) : ValueKind(values[i]) = kind})

\* the dominance rule with the threshold itself counted as dominant
detectColumnTypeInclusive(values) ==
    LET numericCount == CountOf(values, "numeric")
        dateCount == CountOf(values, "date")
        textCount == CountOf(values, "text")
        total == numericCount + textCount + dateCount
    IN  IF total > 0 /\ 5 * numericCount >= 4 * total THEN "numeric"
        ELSE IF total > 0 /\ 5 * dateCount >= 4 * total THEN "date"
        ELSE IF total > 0 /\ 5 * textCount >= 4 * total THEN "text"
        ELSE "mixed"

\* count / total > 0.8 is 5 * count > 4 * total: the quotient of two small
\* integers rounds to the double 0.8 only when it is 4/5, and 0 / 0 is NaN,
\* which is greater than nothing
detectColumnType(values) ==
    LET numericCount == CountOf(values, "numeric")
        dateCount == CountOf(values, "date")
        textCount == CountOf(values, "text")
        total == numericCount + textCount + dateCount
    IN  IF 5 * numericCount > 4 * total THEN "numeric"
        ELSE IF 5 * dateCount > 4 * total THEN "date"
        ELSE IF 5 * textCount > 4 * total THEN "text"
        ELSE "mixed"

\* [...values].sort((a, b) => a - b) on numbers: ascending, by insertion
RECURSIVE Insert(_, _)
Insert(x, sorted) ==
    IF sorted = <<>> THEN <<x>>
    ELSE IF x <= Head(sorted) THEN <<x>> \o sorted
    ELSE <<Head(sorted)>> \o Insert(x, Tail(sorted))

RECURSIVE Sort(_)
Sort(values) ==
    IF values = <<>> THEN <<>> ELSE Insert(Head(values), Sort(Tail(values)))

RECURSIVE Sum(_)
Sum(values) == IF values = <<>> THEN 0 ELSE Head(values) + Sum(Tail(values))

\* numeric statistics that trust the row order instead of sorting
calculateNumericStatsUnsorted(values) ==
    [min |-> values[1], max |-> values[Len(values)],
     median |-> values[(Len(values) \div 2) + 1], sum |-> Sum(values)]

\* numeric statistics with the lower of the two middle elements as median
calculateNumericStatsLowerMedian(values) ==
    LET sorted == Sort(values)
    IN  [min |-> sorted[1], max |-> sorted[Len(sorted)],
         median |-> sorted[((Len(sorted) - 1) \div 2) + 1], sum |-> Sum(values)]

\* values is never empty here: a numeric column has a number.  The mean
\* (a fraction rounded to two decimals) plays no part and is left out.
calculateNumericStats(values) ==
    LET sorted == Sort(values)
    IN  [min |-> sorted[1], max |-> sorted[Len(sorted)],
         median |-> sorted[(Len(sorted) \div 2) + 1], sum |-> Sum(values)]

\* the distinct elements of keys in order of first appearance
RECURSIVE FirstSeen(_, _)
FirstSeen(keys, seen) ==
    IF keys = <<>> THEN seen
    ELSE FirstSeen(Tail(keys),
                   IF Head(keys) \in Range(seen) THEN seen ELSE Append(seen, Head(keys)))

\* an object key that is an array index: the canonical text of an integer
\* from 0 to 2^32 - 2 (the numbers of the model have at most 9 digits, all
\* of them below that limit)
IsArrayIndex(key) ==
    /\ key # <<>>
    /\ \A i \in 1..Len(key) : IsDigit(key[i])
    /\ Len(key) <= 9
    /\ key = NatToString(DigitsValue(key, 0))

RECURSIVE InsertKey(_, _)
InsertKey(key, sorted) ==
    IF sorted = <<>> THEN <<key>>
    ELSE IF DigitsValue(key, 0) <= DigitsValue(Head(sorted), 0) THEN <<key>> \o sorted
    ELSE <<Head(sorted)>> \o InsertKey(key, Tail(sorted))

RECURSIVE SortKeys(_)
SortKeys(keys) ==
    IF keys = <<>> THEN <<>> ELSE InsertKey(Head(keys), SortKeys(Tail(keys)))

\* the order in which Object.entries lists the keys of an object: the array
\* indexes ascending, then the other keys in order of insertion
OwnKeys(inserted) ==
    SortKeys(SelectSeq(inserted, IsArrayIndex))
        \o SelectSeq(inserted, LAMBDA k : ~IsArrayIndex(k))

\* the loop over Object.entries(frequency)
RECURSIVE ScanEntries(_, _, _, _)
ScanEntries(keys, frequency, maxCount, mostCommon) ==
    IF keys = <<>> THEN [value |-> mostCommon, count |-> maxCount]
    ELSE IF frequency[Head(keys)] > maxCount
         THEN ScanEntries(Tail(keys), frequency, frequency[Head(keys)], Head(keys))
    ELSE ScanEntries(Tail(keys), frequency, maxCount, mostCommon)

findMostCommon(values) ==
    LET keys == [i \in 1..Len(values) |-> String(values[i])]
        frequency == [k \in Range(keys) |->
                        Cardinality({i \in 1..Len(keys) : keys[i] = k})]
    IN  ScanEntries(OwnKeys(FirstSeen(keys, <<>>)), frequency, 0, <<>>)

NoNumericStats == [min |-> 0, max |-> 0, median |-> 0, sum |-> 0]

\* the optional fields a column of another type lacks are 0 and ""
analyzeColumn(columnName, rows) ==
    LET values == [i \in 1..Len(rows) |-> Get(rows[i], columnName)]
        nonNullValues == SelectSeq(values, LAMBDA v : ~IsNull(v))
        type == detectColumnType(nonNullValues)
        numbers == SelectSeq(nonNullValues, LAMBDA v : v.kind = "number")
        numericStats ==
            IF type = "numeric"
            THEN calculateNumericStats([i \in 1..Len(numbers) |-> numbers[i].num])
            ELSE NoNumericStats
        common == IF type \in {"text", "mixed"} THEN findMostCommon(nonNullValues)
                  ELSE [value |-> <<>>, count |-> 0]
    IN  [column |-> columnName, type |-> type,
         count |-> Len(nonNullValues), nullCount |-> Len(rows) - Len(nonNullValues),
         uniqueCount |-> Cardinality(Range(nonNullValues)),
         min |-> numericStats.min, max |-> numericStats.max,
         median |-> numericStats.median, sum |-> numericStats.sum,
         mostCommon |-> common.value, mostCommonCount |-> common.count]

(***************************************************************************)
(* The chart recommender.  An optional field a branch leaves out has its   *)
(* has... flag FALSE.                                                      *)
(***************************************************************************)
Recommend(chartType, hasXAxis, xAxis, hasYAxis, yAxis, reasoning) ==
    [suggestedChartType |-> chartType, hasXAxis |-> hasXAxis, xAxis |-> xAxis,
     hasYAxis |-> hasYAxis, yAxis |-> yAxis, reasoning |-> reasoning]

ColumnNames(cols) == [i \in 1..Len(cols) |-> cols[i].column]

\* textColumns.find(c => c.uniqueCount < bound): the first such column, in a
\* sequence of at most one element
FindBelow(cols, bound) ==
    LET found == SelectSeq(cols, LAMBDA c : c.uniqueCount < bound)
    IN  IF found = <<>> THEN <<>> ELSE <<found[1]>>

TimeSeries(dateColumns, numericColumns) ==
    Recommend("line", TRUE, dateColumns[1].column, TRUE, ColumnNames(numericColumns),
              "Time series data detected. Line chart shows trends over time.")

Categories(categoryCol, numericColumns) ==
    Recommend("column", TRUE, categoryCol.column, TRUE, <<numericColumns[1].column>>,
              "Categorical data with numeric values. Column chart shows comparison between categories.")

\* the remaining branches with the pie rule tried before the numeric rules
RemainingPieFirst(numericColumns, textColumns) ==
    LET pieCol == FindBelow(textColumns, 10)
    IN  IF Len(textColumns) > 0 /\ pieCol # <<>>
        THEN Recommend("pie", TRUE, pieCol[1].column, TRUE, <<>>,
                       "Categorical data with few categories. Pie chart shows proportions.")
        ELSE IF Len(numericColumns) >= 2
        THEN Recommend("line", TRUE, numericColumns[1].column,
                       TRUE, ColumnNames(Tail(numericColumns)),
                       "Multiple numeric columns detected. Line chart shows comparison between variables.")
        ELSE IF Len(numericColumns) = 1
        THEN Recommend("histogram", TRUE, numericColumns[1].column, TRUE, <<>>,
                       "Single numeric column. Histogram shows data distribution.")
        ELSE Recommend("column", FALSE, "", FALSE, <<>>,
                       "General purpose column chart for data overview.")

\* the remaining branches: two or more numeric columns, one numeric column,
\* a text column with few values, the fallback
Remaining(numericColumns, textColumns) ==
    LET pieCol == FindBelow(textColumns, 10)
    IN  IF Len(numericColumns) >= 2
        THEN Recommend("line", TRUE, numericColumns[1].column,
                       TRUE, ColumnNames(Tail(numericColumns)),
                       "Multiple numeric columns detected. Line chart shows comparison between variables.")
        ELSE IF Len(numericColumns) = 1
        THEN Recommend("histogram", TRUE, numericColumns[1].column, TRUE, <<>>,
                       "Single numeric column. Histogram shows data distribution.")
        ELSE IF Len(textColumns) > 0 /\ pieCol # <<>>
        THEN Recommend("pie", TRUE, pieCol[1].column, TRUE, <<>>,
                       "Categorical data with few categories. Pie chart shows proportions.")
        ELSE Recommend("column", FALSE, "", FALSE, <<>>,
                       "General purpose column chart for data overview.")

\* the recommender with the category rule tried before the time series rule
generateVisualizationRecommendationsCategoryFirst(stats_) ==
    LET numericColumns == SelectSeq(stats_, LAMBDA c : c.type = "numeric")
        textColumns == SelectSeq(stats_, LAMBDA c : c.type = "text")
        dateColumns == SelectSeq(stats_, LAMBDA c : c.type = "date")
        categoryCol == FindBelow(textColumns, 20)
    IN  IF Len(textColumns) > 0 /\ Len(numericColumns) = 1 /\ categoryCol # <<>>
        THEN Categories(categoryCol[1], numericColumns)
        ELSE IF Len(dateColumns) > 0 /\ Len(numericColumns) > 0
        THEN TimeSeries(dateColumns, numericColumns)
        ELSE Remaining(numericColumns, textColumns)

\* the recommender with the category rule fired by exactly one text column
generateVisualizationRecommendationsOneText(stats_) ==
    LET numericColumns == SelectSeq(stats_, LAMBDA c : c.type = "numeric")
        textColumns == SelectSeq(stats_, LAMBDA c : c.type = "text")
        dateColumns == SelectSeq(stats_, LAMBDA c : c.type = "date")
        categoryCol == FindBelow(textColumns, 20)
    IN  IF Len(dateColumns) > 0 /\ Len(numericColumns) > 0
        THEN TimeSeries(dateColumns, numericColumns)
        ELSE IF Len(textColumns) = 1 /\ Len(numericColumns) = 1 /\ categoryCol # <<>>
        THEN Categories(categoryCol[1], numericColumns)
        ELSE Remaining(numericColumns, textColumns)

generateVisualizationRecommendations(stats_) ==
    LET numericColumns == SelectSeq(stats_, LAMBDA c : c.type = "numeric")
        textColumns == SelectSeq(stats_, LAMBDA c : c.type = "text")
        dateColumns == SelectSeq(stats_, LAMBDA c : c.type = "date")
        categoryCol == FindBelow(textColumns, 20)
    IN  IF Len(dateColumns) > 0 /\ Len(numericColumns) > 0
        THEN TimeSeries(dateColumns, numericColumns)
        ELSE IF Len(textColumns) > 0 /\ Len(numericColumns) = 1 /\ categoryCol # <<>>
        THEN Categories(categoryCol[1], numericColumns)
        ELSE Remaining(numericColumns, textColumns)

\* analyzeData: the statistics of every header and the recommendation
analyzeData(parsed) ==
    LET profiles == [i \in 1..Len(parsed.headers) |->
                        analyzeColumn(parsed.headers[i], parsed.rows)]
    IN  [columnStats |-> profiles,
         recommendations |-> generateVisualizationRecommendations(profiles)]

(***************************************************************************)
(* The chart data builder (src/lib/ai/tools/analyze-csv.ts).  Chart data   *)
(* is [labels, datasets], a dataset [label, data]; the colour strings are  *)
(* left out.  A label is a string (a sequence of characters).              *)
(***************************************************************************)
RECURSIVE TrimEnd(_)
TrimEnd(s) ==
    IF s # <<>> /\ s[Len(s)] = " " THEN TrimEnd(SubSeq(s, 1, Len(s) - 1)) ELSE s

\* Number(value): a number is itself, undefined is NaN, a string is trimmed
\* and must be empty (0), a signed "Infinity" or a signed run of digits
ToNumber(value) ==
    IF value.kind = "number" THEN [kind |-> "finite", val |-> value.num]
    ELSE IF value.kind = "undefined" THEN [kind |-> "nan", val |-> 0]
    ELSE LET t == TrimEnd(TrimStart(value.str))
             signed == t # <<>> /\ Head(t) \in {"+", "-"}
             sign == IF signed /\ Head(t) = "-" THEN -1 ELSE 1
             body == IF signed THEN Tail(t) ELSE t
         IN  IF t = <<>> THEN [kind |-> "finite", val |-> 0]
             ELSE IF body = InfinityText THEN [kind |-> "infinite", val |-> sign]
             ELSE IF body # <<>> /\ DigitRun(body) = body
             THEN [kind |-> "finite", val |-> sign * DigitsValue(body, 0)]
             ELSE [kind |-> "nan", val |-> 0]

safeNumber(value) ==
    LET num == ToNumber(value) IN IF num.kind # "finite" THEN 0 ELSE num.val

\* the key a missing header reads: row[undefined] is row["undefined"]
NoHeader == "undefined"

\* analysis.columnStats.find(s => s.column === h)?.type
StatType(analysis, h) ==
    LET found == SelectSeq(analysis.columnStats, LAMBDA c : c.column = h)
    IN  IF found = <<>> THEN "undefined" ELSE found[1].type

\* parsed.headers.find(h => the type of h is in types) || parsed.headers[0]
FirstHeaderOfType(parsed, analysis, types) ==
    LET found == SelectSeq(parsed.headers, LAMBDA h : StatType(analysis, h) \in types)
    IN  IF found # <<>> THEN found[1]
        ELSE IF parsed.headers # <<>> THEN parsed.headers[1]
        ELSE NoHeader

Dataset(label, data) == [label |-> label, data |-> data]

ChartData(labels, datasets) == [labels |-> labels, datasets |-> datasets]

\* the column, bar, line and area case with a point only for the rows whose
\* cell is a number
AxisChartSkippingInvalid(parsed, analysis) ==
    LET rec == analysis.recommendations
        rows == parsed.rows
        xAxis == IF rec.hasXAxis /\ rec.xAxis # "" THEN rec.xAxis
                 ELSE FirstHeaderOfType(parsed, analysis, {"text", "date"})
        yAxes == IF rec.hasYAxis THEN rec.yAxis
                 ELSE SelectSeq(parsed.headers,
                                LAMBDA h : StatType(analysis, h) = "numeric")
        valid(yAxis) == SelectSeq(rows, LAMBDA row : Get(row, yAxis).kind = "number")
    IN  ChartData([i \in 1..Len(rows) |-> String(Get(rows[i], xAxis))],
                  [k \in 1..Len(yAxes) |->
                      Dataset(yAxes[k],
                              [i \in 1..Len(valid(yAxes[k])) |->
                                  safeNumber(Get(valid(yAxes[k])[i], yAxes[k]))])])

\* case "column", "bar", "line", "area"
AxisChart(parsed, analysis) ==
    LET rec == analysis.recommendations
        rows == parsed.rows
        xAxis == IF rec.hasXAxis /\ rec.xAxis # "" THEN rec.xAxis
                 ELSE FirstHeaderOfType(parsed, analysis, {"text", "date"})
        yAxes == IF rec.hasYAxis THEN rec.yAxis
                 ELSE SelectSeq(parsed.headers,
                                LAMBDA h : StatType(analysis, h) = "numeric")
    IN  ChartData([i \in 1..Len(rows) |-> String(Get(rows[i], xAxis))],
                  [k \in 1..Len(yAxes) |->
                      Dataset(yAxes[k],
                              [i \in 1..Len(rows) |->
                                  safeNumber(Get(rows[i], yAxes[k]))])])

\* case "pie": counts is a plain object, listed by Object.keys and
\* Object.values in the order of its own keys
PieChart(parsed, analysis) ==
    LET rec == analysis.recommendations
        rows == parsed.rows
        categoryColumn == IF rec.hasXAxis /\ rec.xAxis # "" THEN rec.xAxis
                          ELSE FirstHeaderOfType(parsed, analysis, {"text"})
        keys == [i \in 1..Len(rows) |-> String(Get(rows[i], categoryColumn))]
        labels == OwnKeys(FirstSeen(keys, <<>>))
    IN  ChartData(labels,
                  <<Dataset(categoryColumn,
                            [k \in 1..Len(labels) |->
                                Cardinality({i \in 1..Len(keys) : keys[i] = labels[k]})])>>)

binCount == 10

\* n tenths with one decimal place: (n / 10).toFixed(1)
TenthsToFixed(n) ==
    LET a == IF n < 0 THEN -n ELSE n
    IN  (IF n < 0 THEN <<"-">> ELSE <<>>)
            \o NatToString(a \div 10) \o <<".">> \o NatToString(a % 10)

NoData == <<"N", "o", " ", "D", "a", "t", "a">>

RECURSIVE MinOf(_)
MinOf(values) ==
    IF Len(values) = 1 THEN values[1] ELSE Min(Head(values), MinOf(Tail(values)))

RECURSIVE MaxOf(_)
MaxOf(values) ==
    IF Len(values) = 1 THEN values[1] ELSE Max(Head(values), MaxOf(Tail(values)))

\* case "histogram".  The numbers are integers, so binSize = range / 10 is
\* range tenths: (value - min) / binSize is 10 * (value - min) / range, and
\* the bin boundaries min + i * binSize are whole tenths.
Histogram(parsed, analysis) ==
    LET rows == parsed.rows
        numericColumn == FirstHeaderOfType(parsed, analysis, {"numeric"})
        mapped == [i \in 1..Len(rows) |-> safeNumber(Get(rows[i], numericColumn))]
        anyZero == \E i \in 1..Len(mapped) : mapped[i] = 0
        values == SelectSeq(mapped, LAMBDA v : v # 0 \/ anyZero)
    IN  IF values = <<>>
        THEN ChartData(<<NoData>>, <<Dataset(numericColumn, <<0>>)>>)
        ELSE LET min == MinOf(values)
                 max == MaxOf(values)
                 range == max - min
                 binTenths == IF range > 0 THEN range ELSE 10
                 binIndex(value) ==
                     IF range > 0
                     THEN Min((10 * (value - min)) \div range, binCount - 1)
                     ELSE 0
                 bins == [b \in 1..binCount |->
                            Cardinality({i \in 1..Len(values) :
                                            binIndex(values[i]) = b - 1})]
                 labels == [b \in 1..binCount |->
                              TenthsToFixed(10 * min + (b - 1) * binTenths)
                                  \o <<"-">>
                                  \o TenthsToFixed(10 * min + b * binTenths)]
             IN  ChartData(labels, <<Dataset(numericColumn, bins)>>)

\* default: one point per row, the first value of the row
RowChart(parsed) ==
    LET rows == parsed.rows
        first == IF parsed.headers = <<>> THEN NoHeader ELSE parsed.headers[1]
    IN  ChartData([i \in 1..Len(rows) |-> <<"R", "o", "w", " ">> \o NatToString(i)],
                  <<Dataset("Data", [i \in 1..Len(rows) |->
                                        safeNumber(Get(rows[i], first))])>>)

generateChartData(parsed, analysis, chartType) ==
    IF chartType \in {"column", "bar", "line", "area"} THEN AxisChart(parsed, analysis)
    ELSE IF chartType = "pie" THEN PieChart(parsed, analysis)
    ELSE IF chartType = "histogram" THEN Histogram(parsed, analysis)
    ELSE RowChart(parsed)

\* execute: "Filter columns if specified"
FilterColumns(parsed, cols) ==
    IF cols = <<>> THEN parsed
    ELSE LET filteredHeaders == SelectSeq(parsed.headers, LAMBDA h : h \in Range(cols))
             filteredRows == [i \in 1..Len(parsed.rows) |->
                                [h \in Range(filteredHeaders) |-> parsed.rows[i][h]]]
         IN  [threw |-> FALSE, headers |-> filteredHeaders, rows |-> filteredRows,
              rowCount |-> Len(filteredRows), columnCount |-> Len(filteredHeaders)]

(***************************************************************************)
(* The prompt intent detection (src/lib/blob/r2.ts).  A prompt and a       *)
(* keyword are strings; a header and a chart type are atoms, the header's  *)
(* text being HeaderText.  "null" stands for null.                         *)
(***************************************************************************)
analysisKeywords ==
    << <<"a", "n", "a", "l", "y", "z", "e">>,
       <<"a", "n", "a", "l", "y", "s", "i", "s">>,
       <<"e", "x", "a", "m", "i", "n", "e">>,
       <<"i", "n", "s", "p", "e", "c", "t">>,
       <<"s", "t", "u", "d", "y">>,
       <<"s", "u", "m", "m", "a", "r", "i", "z", "e">>,
       <<"s", "u", "m", "m", "a", "r", "y">>,
       <<"s", "t", "a", "t", "i", "s", "t", "i", "c", "s">>,
       <<"s", "t", "a", "t", "s">>,
       <<"d", "e", "s", "c", "r", "i", "b", "e">>,
       <<"o", "v", "e", "r", "v", "i", "e", "w">>,
       <<"i", "n", "s", "i", "g", "h", "t", "s">>,
       <<"t", "r", "e", "n", "d", "s">>,
       <<"c", "a", "l", "c", "u", "l", "a", "t", "e">>,
       <<"c", "o", "m", "p", "u", "t", "e">>,
       <<"f", "i", "n", "d">>,
       <<"d", "e", "t", "e", "r", "m", "i", "n", "e">> >>

visualizationKeywords ==
    << <<"v", "i", "s", "u", "a", "l", "i", "z", "e">>,
       <<"v", "i", "s", "u", "a", "l", "i", "z", "a", "t", "i", "o", "n">>,
       <<"p", "l", "o", "t">>,
       <<"c", "h", "a", "r", "t">>,
       <<"g", "r", "a", "p", "h">>,
       <<"s", "h", "o", "w">>,
       <<"d", "i", "s", "p", "l", "a", "y">>,
       <<"d", "r", "a", "w">>,
       <<"c", "r", "e", "a", "t", "e", " ", "c", "h", "a", "r", "t">>,
       <<"m", "a", "k", "e", " ", "c", "h", "a", "r", "t">>,
       <<"b", "a", "r", " ", "c", "h", "a", "r", "t">>,
       <<"l", "i", "n", "e", " ", "c", "h", "a", "r", "t">>,
       <<"p", "i", "e", " ", "c", "h", "a", "r", "t">>,
       <<"s", "c", "a", "t", "t", "e", "r", " ", "p", "l", "o", "t">>,
       <<"h", "i", "s", "t", "o", "g", "r", "a", "m">>,
       <<"h", "e", "a", "t", "m", "a", "p">>,
       <<"c", "o", "m", "p", "a", "r", "e">>,
       <<"c", "o", "m", "p", "a", "r", "i", "s", "o", "n">> >>

explorationKeywords ==
    << <<"e", "x", "p", "l", "o", "r", "e">>,
       <<"e", "x", "p", "l", "o", "r", "e", " ", "d", "a", "t", "a">>,
       <<"w", "h", "a", "t", "'", "s", " ", "i", "n">>,
       <<"w", "h", "a", "t", " ", "i", "s", " ", "i", "n">>,
       <<"s", "h", "o", "w", " ", "m", "e">>,
       <<"t", "e", "l", "l", " ", "m", "e", " ", "a", "b", "o", "u", "t">>,
       <<"b", "r", "e", "a", "k", "d", "o", "w", "n">>,
       <<"d", "i", "s", "t", "r", "i", "b", "u", "t", "i", "o", "n">>,
       <<"l", "o", "o", "k", " ", "a", "t">>,
       <<"r", "e", "v", "i", "e", "w">>,
       <<"c", "h", "e", "c", "k">>,
       <<"v", "i", "e", "w">> >>

comparisonKeywords ==
    << <<"c", "o", "m", "p", "a", "r", "e">>,
       <<"c", "o", "m", "p", "a", "r", "i", "s", "o", "n">>,
       <<"v", "e", "r", "s", "u", "s">>,
       <<"v", "s">>,
       <<"v", "s", ".">>,
       <<"d", "i", "f", "f", "e", "r", "e", "n", "c", "e">>,
       <<"d", "i", "f", "f", "e", "r", "e", "n", "c", "e", "s">>,
       <<"c", "o", "n", "t", "r", "a", "s", "t">>,
       <<"b", "e", "t", "w", "e", "e", "n">>,
       <<"a", "g", "a", "i", "n", "s", "t">>,
       <<"c", "o", "r", "r", "e", "l", "a", "t", "i", "o", "n">>,
       <<"r", "e", "l", "a", "t", "i", "o", "n", "s", "h", "i", "p">>,
       <<"r", "e", "l", "a", "t", "e">>,
       <<"r", "e", "l", "a", "t", "e", "d">> >>

\* keywords.some(keyword => text.includes(keyword))
SomeIncluded(keywords, text) ==
    \E k \in 1..Len(keywords) : includes(text, keywords[k])

detectAnalysisIntent(prompt, hasCSVAttachment) ==
    IF ~hasCSVAttachment THEN FALSE
    ELSE SomeIncluded(analysisKeywords \o visualizationKeywords \o explorationKeywords,
                      toLowerCase(prompt))

chartTypes ==
    << [type |-> "bar", keywords |->
          << <<"b", "a", "r", " ", "c", "h", "a", "r", "t">>,
             <<"b", "a", "r", " ", "g", "r", "a", "p", "h">>,
             <<"b", "a", "r", "s">>,
             <<"c", "o", "l", "u", "m", "n", " ", "c", "h", "a", "r", "t">> >>],
       [type |-> "line", keywords |->
          << <<"l", "i", "n", "e", " ", "c", "h", "a", "r", "t">>,
             <<"l", "i", "n", "e", " ", "g", "r", "a", "p", "h">>,
             <<"l", "i", "n", "e", "s">>,
             <<"t", "r", "e", "n", "d", " ", "l", "i", "n", "e">>,
             <<"t", "i", "m", "e", " ", "s", "e", "r", "i", "e", "s">> >>],
       [type |-> "pie", keywords |->
          << <<"p", "i", "e", " ", "c", "h", "a", "r", "t">>,
             <<"p", "i", "e", " ", "g", "r", "a", "p", "h">>,
             <<"p", "i", "e">> >>],
       [type |-> "scatter", keywords |->
          << <<"s", "c", "a", "t", "t", "e", "r">>,
             <<"s", "c", "a", "t", "t", "e", "r", " ", "p", "l", "o", "t">>,
             <<"s", "c", "a", "t", "t", "e", "r", "p", "l", "o", "t">> >>],
       [type |-> "histogram", keywords |->
          << <<"h", "i", "s", "t", "o", "g", "r", "a", "m">>,
             <<"d", "i", "s", "t", "r", "i", "b", "u", "t", "i", "o", "n">>,
             <<"f", "r", "e", "q", "u", "e", "n", "c", "y">> >>],
       [type |-> "heatmap", keywords |->
          << <<"h", "e", "a", "t", "m", "a", "p">>,
             <<"h", "e", "a", "t", " ", "m", "a", "p">>,
             <<"c", "o", "r", "r", "e", "l", "a", "t", "i", "o", "n">> >>],
       [type |-> "area", keywords |->
          << <<"a", "r", "e", "a", " ", "c", "h", "a", "r", "t">>,
             <<"a", "r", "e", "a", " ", "g", "r", "a", "p", "h">> >>] >>

\* the loop over chartTypes from group g on
RECURSIVE FirstMatch(_, _)
FirstMatch(text, g) ==
    IF g > Len(chartTypes) THEN "null"
    ELSE IF SomeIncluded(chartTypes[g].keywords, text) THEN chartTypes[g].type
    ELSE FirstMatch(text, g + 1)

\* the detection without the conversion of the prompt to lower case
detectVisualizationTypeCaseSensitive(prompt) == FirstMatch(prompt, 1)

detectVisualizationType(prompt) == FirstMatch(toLowerCase(prompt), 1)

detectComparisonIntent(prompt) == SomeIncluded(comparisonKeywords, toLowerCase(prompt))

HeaderText(header) ==
    CASE header = "sales" -> <<"s", "a", "l", "e", "s">>
      [] header = "region" -> <<"r", "e", "g", "i", "o", "n">>

\* \w of a regular expression
WordChar(c) ==
    \/ IsDigit(c) \/ c = "_"
    \/ CharCode(c) >= 65 /\ CharCode(c) <= 90
    \/ CharCode(c) >= 97 /\ CharCode(c) <= 122

\* new RegExp(`\\b${headerLower}\\b`, 'i').test(prompt), for a header that
\* consists of word characters
MentionsWord(prompt, word) ==
    \E i \in 1..(Len(prompt) - Len(word) + 1) :
        /\ toLowerCase(SubSeq(prompt, i, i + Len(word) - 1)) = word
        /\ i > 1 => ~WordChar(prompt[i - 1])
        /\ i + Len(word) <= Len(prompt) => ~WordChar(prompt[i + Len(word)])

extractColumnReferences(prompt, csvHeaders) ==
    SelectSeq(csvHeaders, LAMBDA h : MentionsWord(prompt, toLowerCase(HeaderText(h))))

IntentAnalysis(shouldAnalyze, chartType, cols, isComparison, confidence) ==
    [shouldAnalyze |-> shouldAnalyze, chartType |-> chartType, columns |-> cols,
     isComparison |-> isComparison, confidence |-> confidence]

\* the analysis with high confidence for every prompt that names a chart type
analyzeIntentChartTypeAlone(prompt, hasCSVAttachment, hasHeaders, csvHeaders) ==
    IF ~hasCSVAttachment THEN IntentAnalysis(FALSE, "null", <<>>, FALSE, "high")
    ELSE LET shouldAnalyze == detectAnalysisIntent(prompt, hasCSVAttachment)
             chartType == detectVisualizationType(prompt)
             cols == IF hasHeaders THEN extractColumnReferences(prompt, csvHeaders)
                     ELSE <<>>
             isComparison == detectComparisonIntent(prompt)
             confidence == IF chartType # "null" THEN "high"
                           ELSE IF shouldAnalyze THEN "medium"
                           ELSE "low"
         IN  IntentAnalysis(shouldAnalyze, chartType, cols, isComparison, confidence)

\* csvHeaders is optional: hasHeaders tells whether it was passed
analyzeIntent(prompt, hasCSVAttachment, hasHeaders, csvHeaders) ==
    IF ~hasCSVAttachment THEN IntentAnalysis(FALSE, "null", <<>>, FALSE, "high")
    ELSE LET shouldAnalyze == detectAnalysisIntent(prompt, hasCSVAttachment)
             chartType == detectVisualizationType(prompt)
             cols == IF hasHeaders THEN extractColumnReferences(prompt, csvHeaders)
                     ELSE <<>>
             isComparison == detectComparisonIntent(prompt)
             confidence == IF shouldAnalyze /\ chartType # "null" THEN "high"
                           ELSE IF shouldAnalyze THEN "medium"
                           ELSE "low"
         IN  IntentAnalysis(shouldAnalyze, chartType, cols, isComparison, confidence)

IntentArgs(prompt, hasCSVAttachment, hasHeaders, csvHeaders) ==
    [prompt |-> prompt, hasCSVAttachment |-> hasCSVAttachment,
     hasHeaders |-> hasHeaders, csvHeaders |-> csvHeaders]

NoIntentArgs == IntentArgs(<<>>, FALSE, FALSE, <<>>)

NoIntent == IntentAnalysis(FALSE, "null", <<>>, FALSE, "none")

(***************************************************************************)
(* The row query tool.                                                     *)
(***************************************************************************)
MaxLimit == 1000

DefaultLimit == 50

\* a greater_than filter that never matches a cell that is no number
GreaterThanNumbersOnly(cellValue, value) ==
    cellValue.kind = "number" /\ value.kind = "number" /\ cellValue.num > value.num

\* case "greater_than"
GreaterThan(cellValue, value) ==
    IF cellValue.kind = "number" /\ value.kind = "number"
    THEN cellValue.num > value.num
    ELSE StrLess(String(value), String(cellValue))

\* case "less_than"
LessThan(cellValue, value) ==
    IF cellValue.kind = "number" /\ value.kind = "number"
    THEN cellValue.num < value.num
    ELSE StrLess(String(cellValue), String(value))

\* the switch on filter.operator
Compare(cellValue, filter) ==
    CASE filter.operator = "equals" ->
            toLowerCase(String(cellValue)) = toLowerCase(String(filter.value))
      [] filter.operator = "not_equals" ->
            toLowerCase(String(cellValue)) # toLowerCase(String(filter.value))
      [] filter.operator = "contains" ->
            includes(toLowerCase(String(cellValue)), toLowerCase(String(filter.value)))
      [] filter.operator = "greater_than" -> GreaterThan(cellValue, filter.value)
      [] filter.operator = "less_than" -> LessThan(cellValue, filter.value)
      [] OTHER -> FALSE

\* the filter callback without its check for a missing column
FilterMatchesNoMissingCheck(row, filter) == Compare(Get(row, filter.column), filter)

\* the callback of filters.every
FilterMatches(row, filter) ==
    LET cellValue == Get(row, filter.column)
    IN  IF cellValue.kind = "undefined" THEN FALSE ELSE Compare(cellValue, filter)

applyFilters(rows, filters) ==
    IF filters = <<>> THEN rows
    ELSE SelectSeq(rows, LAMBDA row :
            \A i \in 1..Len(filters) : FilterMatches(row, filters[i]))

\* a projection that keeps a requested name the row has no value for
selectColumnsKeepMissing(rows, columns) ==
    IF columns = <<>> THEN rows
    ELSE [i \in 1..Len(rows) |-> [col \in Range(columns) |-> Get(rows[i], col)]]

selectColumns(rows, columns) ==
    IF columns = <<>> THEN rows
    ELSE [i \in 1..Len(rows) |->
            [col \in {c \in Range(columns) : Get(rows[i], c).kind # "undefined"} |->
                rows[i][col]]]

\* Array.prototype.slice(start, end): a negative index counts from the end
slice(arr, start, end) ==
    LET len == Len(arr)
        k == IF start < 0 THEN Max(len + start, 0) ELSE Min(start, len)
        final == IF end < 0 THEN Max(len + end, 0) ELSE Min(end, len)
    IN  SubSeq(arr, k + 1, final)

Failure(error) ==
    [success |-> FALSE, error |-> error, totalRows |-> 0, matchingRows |-> 0,
     returnedRows |-> 0, offset |-> 0, limit |-> 0, rows |-> <<>>, headers |-> <<>>]

NoResult == Failure("none")

\* execute(), from the parsed table on (the try block after the fetch)
QueryRows(parsed, req) ==
    LET safeLimit == Min(req.limit, MaxLimit)
        filteredRows == selectColumns(applyFilters(parsed.rows, req.filters), req.columns)
        selectedHeaders == IF req.columns # <<>> THEN req.columns ELSE parsed.headers
        paginatedRows == slice(filteredRows, req.offset, req.offset + safeLimit)
    IN  [success |-> TRUE, error |-> "", totalRows |-> parsed.rowCount,
         matchingRows |-> Len(filteredRows), returnedRows |-> Len(paginatedRows),
         offset |-> req.offset, limit |-> safeLimit, rows |-> paginatedRows,
         headers |-> selectedHeaders]

\* String.prototype.trim() === ""
RECURSIVE IsWhite(_)
IsWhite(s) == IF s = <<>> THEN TRUE ELSE Head(s) = " " /\ IsWhite(Tail(s))

\* !value for a string or undefined
Falsy(v) == IF v.kind = "undefined" THEN TRUE ELSE v.kind = "string" /\ v.str = <<>>

BlankUrl(v) == IF Falsy(v) THEN TRUE ELSE v.kind = "string" /\ IsWhite(v.str)

\* actualFileUrl after the auto-detection of the most recent CSV file
ResolveFileUrl(fileUrl, files) ==
    IF BlankUrl(fileUrl) /\ files # <<>> THEN Str(files[Len(files)].url)
    ELSE fileUrl

NoFile(fileUrl, files) ==
    BlankUrl(fileUrl) /\ Falsy(ResolveFileUrl(fileUrl, files))

(***************************************************************************)
(* The inputs of the row query.                                            *)
(***************************************************************************)
MaxRows == 3

SeqsUpTo(S, n) == UNION {[1..k -> S] : k \in 0..n}

EmptyContent == [fields |-> <<>>, data |-> <<>>]

Fetched(content) == [ok |-> TRUE, error |-> "", content |-> content]

FetchError(error) == [ok |-> FALSE, error |-> error, content |-> EmptyContent]

\* '/api/files/get'
ProxyPath == <<"/", "a", "p", "i", "/", "f", "i", "l", "e", "s", "/", "g", "e", "t">>

\* '?key='
KeyQuery == <<"?", "k", "e", "y", "=">>

\* 'r2.cloudflarestorage.com'
R2Host ==
    <<"r", "2", ".", "c", "l", "o", "u", "d", "f", "l", "a", "r", "e", "s", "t", "o", "r", "a", "g", "e", ".", "c", "o", "m">>

\* urlObj.searchParams.get('key'), for a query that is absent or is the one
\* parameter key; <<>> stands for null and for the empty value
KeyParam(url) ==
    LET query == SubSeq(url, Len(ProxyPath) + 1, Len(url))
    IN  IF StartsWith(query, KeyQuery)
        THEN SubSeq(query, Len(KeyQuery) + 1, Len(query))
        ELSE <<>>

\* the longest prefix of s without the character c
RECURSIVE Before(_, _)
Before(s, c) ==
    IF s = <<>> THEN <<>>
    ELSE IF Head(s) = c THEN <<>>
    ELSE <<Head(s)>> \o Before(Tail(s), c)

\* url.match(/r2\.cloudflarestorage\.com\/([^?]+)/)[1], <<>> without a match
RECURSIVE R2Key(_)
R2Key(url) ==
    IF url = <<>> THEN <<>>
    ELSE IF StartsWith(url, R2Host \o <<"/">>)
              /\ Before(SubSeq(url, Len(R2Host) + 2, Len(url)), "?") # <<>>
    THEN Before(SubSeq(url, Len(R2Host) + 2, Len(url)), "?")
    ELSE R2Key(Tail(url))

\* the message fetchCSVContent throws before it asks the bucket, "" if the
\* URL gives a key (the message for an unsupported URL is cut before the URL)
KeyError(url) ==
    IF StartsWith(url, ProxyPath)
    THEN IF KeyParam(url) = <<>> THEN "No key parameter found in URL" ELSE ""
    ELSE IF includes(url, R2Host)
    THEN IF R2Key(url) = <<>> THEN "Could not extract key from R2 URL" ELSE ""
    ELSE "Unsupported URL format"

\* the catch block of fetchCSVContent
FetchFailure(message) == FetchError("Error fetching CSV from R2: " \o message)

\* fetchCSVContent(url) when the bucket answers the GetObjectCommand with
\* answer: a rejection or a missing body (FetchError), or the text of the
\* object (Fetched)
fetchCSVContent(url, answer) ==
    IF KeyError(url) # "" THEN FetchFailure(KeyError(url))
    ELSE IF ~answer.ok THEN FetchFailure(answer.error)
    ELSE IF answer.content = EmptyContent THEN FetchFailure("CSV file is empty")
    ELSE answer

QueryFields == <<"sales", "region">>

\* the data lines: 50,North / abc, / 150 (a line with one field only)
Line50 == << <<"5", "0">>, <<"N", "o", "r", "t", "h">> >>

LineAbc == << <<"a", "b", "c">>, <<>> >>

Line150 == << <<"1", "5", "0">> >>

QueryLines == {Line50, LineAbc, Line150}

QueryContents ==
    {[fields |-> QueryFields, data |-> d] : d \in SeqsUpTo(QueryLines, MaxRows)}

Operators == {"equals", "not_equals", "contains", "greater_than", "less_than"}

FilterValues == {Num(100), Str(<<"n", "o", "r", "t", "h">>)}

\* "profit" is no column of the file
FilterPool ==
    {[column |-> c, operator |-> o, value |-> v] :
        c \in {"sales", "region", "profit"}, o \in Operators, v \in FilterValues}

SalesAbove100 == [column |-> "sales", operator |-> "greater_than", value |-> Num(100)]

FilterLists ==
    {<<>>} \cup {<<f>> : f \in FilterPool}
           \cup {<<f, g>> : f \in FilterPool,
                            g \in {SalesAbove100,
                                   [column |-> "region", operator |-> "contains",
                                    value |-> Str(<<"O">>)]}}

\* '/api/files/get?key=a'
UrlA == ProxyPath \o KeyQuery \o <<"a">>

\* 'https://r2.cloudflarestorage.com/b'
UrlB ==
    <<"h", "t", "t", "p", "s", ":", "/", "/">> \o R2Host \o <<"/", "b">>

Request(fileUrl, filters, columns, limit, offset) ==
    [fileUrl |-> fileUrl, filters |-> filters, columns |-> columns,
     limit |-> limit, offset |-> offset]

FilterRequests ==
    {Request(Str(UrlA), fs, <<>>, DefaultLimit, 0) : fs \in FilterLists}

PageRequests ==
    {Request(Str(UrlA), fs, cs, l, o) :
        fs \in {<<>>, <<SalesAbove100>>},
        cs \in {<<>>, <<"sales">>, <<"region", "cost">>},
        l \in {-1, 0, 2, 1001},
        o \in {-1, 0, 1}}

ResolveRequests ==
    {Request(u, <<>>, <<>>, DefaultLimit, 0) :
        u \in {Undefined, Str(<<>>), Str(<<" ">>), Str(UrlA)}}

CsvFileLists ==
    {<<>>, <<[url |-> UrlA, name |-> "a.csv"]>>,
     <<[url |-> UrlA, name |-> "a.csv"], [url |-> UrlB, name |-> "b.csv"]>>}

\* one call of fetchCSVContent(url)
FetchCall(tool, url) == [tool |-> tool, url |-> url]

NoTable == [threw |-> FALSE, headers |-> <<>>, rows |-> <<>>,
            rowCount |-> 0, columnCount |-> 0]

\* parseCSV was not called
NoParse == table = NoTable /\ warnings = {}

\* analyzeCSV was not called
NoCalls ==
    /\ calls = <<>> /\ session = "" /\ effects = <<>>
    /\ documents = {} /\ nextId = 0 /\ bucket = <<>>

AnalyzeRequest(chartType, cols) == [chartType |-> chartType, columns |-> cols]

NoAnalyzeRequest == AnalyzeRequest("auto", <<>>)

NoChart == [type |-> "none", data |-> ChartData(<<>>, <<>>)]

NoStats ==
    [column |-> "", type |-> "none", count |-> 0, nullCount |-> 0, uniqueCount |-> 0,
     min |-> 0, max |-> 0, median |-> 0, sum |-> 0,
     mostCommon |-> <<>>, mostCommonCount |-> 0]

NoRecommendation == Recommend("none", FALSE, "", FALSE, <<>>, "")

Init ==
    /\ pc = "start"
    /\ actualFileUrl = Undefined
    /\ result = NoResult
    /\ column = "" /\ stats = NoStats
    /\ columnStats = <<>> /\ recommendation = NoRecommendation
    /\ analyzeRequest = NoAnalyzeRequest /\ chart = NoChart
    /\ intentArgs = NoIntentArgs /\ intent = NoIntent
    /\ NoParse /\ NoCalls /\ fetchLog = <<>>
    /\ \/ /\ request \in FilterRequests \cup PageRequests
          /\ csvFiles = <<>>
          /\ storage \in {Fetched(c) : c \in QueryContents}
       \/ /\ request \in ResolveRequests
          /\ csvFiles \in CsvFileLists
          /\ storage \in {FetchError("File not found in R2 bucket"),
                           Fetched(EmptyContent),
                           Fetched([fields |-> QueryFields, data |-> <<>>])}

\* execute() up to the return of the "No CSV file available" failure
QueryNoFile ==
    /\ pc = "start"
    /\ NoFile(request.fileUrl, csvFiles)
    /\ result' = Failure("No CSV file available")
    /\ pc' = "done"
    /\ UNCHANGED <<analyzeRequest, chart, intentArgs, intent, parseVars, analyzeVars,
                   fetchLog>>
    /\ UNCHANGED <<csvFiles, request, storage, actualFileUrl,
                   column, stats, columnStats, recommendation>>

\* execute() up to the await of fetchCSVContent(actualFileUrl)
QueryFetch ==
    /\ pc = "start"
    /\ ~NoFile(request.fileUrl, csvFiles)
    /\ actualFileUrl' = ResolveFileUrl(request.fileUrl, csvFiles)
    /\ fetchLog' = Append(fetchLog, FetchCall("queryCSVRows", actualFileUrl'))
    /\ pc' = "fetching"
    /\ UNCHANGED <<analyzeRequest, chart, intentArgs, intent, parseVars, analyzeVars>>
    /\ UNCHANGED <<csvFiles, request, storage, result,
                   column, stats, columnStats, recommendation>>

\* the fetch resolved: parse, filter, select, paginate, return
QueryFetched ==
    /\ pc = "fetching"
    /\ fetchCSVContent(actualFileUrl.str, storage).ok
    /\ LET parsed == parseCSV(storage.content)
       IN  result' = IF parsed.threw
                     THEN Failure("CSV file is empty or could not be parsed")
                     ELSE QueryRows(parsed, request)
    /\ pc' = "done"
    /\ UNCHANGED <<analyzeRequest, chart, intentArgs, intent, parseVars, analyzeVars,
                   fetchLog>>
    /\ UNCHANGED <<csvFiles, request, storage, actualFileUrl,
                   column, stats, columnStats, recommendation>>

\* the fetch rejected: the catch block returns the failure
QueryFetchFailed ==
    /\ pc = "fetching"
    /\ ~fetchCSVContent(actualFileUrl.str, storage).ok
    /\ result' = Failure(fetchCSVContent(actualFileUrl.str, storage).error)
    /\ pc' = "done"
    /\ UNCHANGED <<analyzeRequest, chart, intentArgs, intent, parseVars, analyzeVars,
                   fetchLog>>
    /\ UNCHANGED <<csvFiles, request, storage, actualFileUrl,
                   column, stats, columnStats, recommendation>>

Next == QueryNoFile \/ QueryFetch \/ QueryFetched \/ QueryFetchFailed

Spec == Init /\ [][Next]_vars

(***************************************************************************)
(* Claims on the row query.                                                *)
(***************************************************************************)
\* the table the finished query worked on
Parsed == parseCSV(storage.content)

QueryReturned == pc = "done" /\ result.success

NumberFilters(op) ==
    {request.filters[i] : i \in {j \in 1..Len(request.filters) :
        /\ request.filters[j].operator = op
        /\ request.filters[j].value.kind = "number"}}

\* C1 as stated: with all columns returned, every row a greater_than filter
\* with a number value lets through holds a number greater than that value
\* in the filtered column (a text cell such as "abc" is never matched).
C1_OnlyGreaterNumbersMatch ==
    (QueryReturned /\ request.columns = <<>>) =>
        \A f \in NumberFilters("greater_than") : \A r \in Range(result.rows) :
            Get(r, f.column).kind = "number" /\ Get(r, f.column).num > f.value.num

GreaterThanNumber(cell, n) ==
    \/ cell.kind = "number" /\ cell.num > n
    \/ cell.kind = "string" /\ StrLess(NumberToString(n), cell.str)

\* C1 amended: a greater_than filter with a number value matches a row
\* exactly when the cell is a number greater than the value, or a text that
\* sorts after the decimal text of the value (so "abc" against 100 matches);
\* for the single filter sales > 100 the rows returned are all such rows.
C1_GreaterThanFallsBackToText ==
    (QueryReturned /\ request.columns = <<>>) =>
        /\ \A f \in NumberFilters("greater_than") : \A r \in Range(result.rows) :
                GreaterThanNumber(Get(r, f.column), f.value.num)
        /\ (request.filters = <<SalesAbove100>> /\ request.limit = DefaultLimit
                /\ request.offset = 0) =>
              result.rows = SelectSeq(Parsed.rows,
                                LAMBDA r : GreaterThanNumber(Get(r, "sales"), 100))

\* the rows 50, 150, "abc" under sales > 100: the 150 and the "abc" row return
C1_Witness ==
    /\ QueryReturned
    /\ storage.content.data = <<Line50, Line150, LineAbc>>
    /\ request.filters = <<SalesAbove100>> /\ request.columns = <<>>
    /\ request.limit = DefaultLimit /\ request.offset = 0
    /\ Len(result.rows) = 2
    /\ Get(result.rows[1], "sales") = Num(150)
    /\ Get(result.rows[2], "sales") = Str(<<"a", "b", "c">>)

\* C2 as stated: whatever limit and offset are asked for, the reported limit
\* is at most 1000 and no more rows than that limit are returned (read in
\* the code's favour: a limit below zero allows no row at all).
C2_LimitBoundsReturnedRows ==
    QueryReturned =>
        /\ result.limit <= MaxLimit
        /\ result.returnedRows <= Max(result.limit, 0)
        /\ Len(result.rows) <= Max(result.limit, 0)

\* the elements of list at the positions offset .. offset+limit-1 that exist
Window(list, offset, limit) ==
    LET first == Max(offset, 0)
        last == Min(offset + limit, Len(list))
    IN  [i \in 1..Max(last - first, 0) |-> list[first + i]]

PassesAll(row) ==
    \A i \in 1..Len(request.filters) : FilterMatches(row, request.filters[i])

\* C3 as stated: the rows returned are the elements at positions
\* offset .. offset+limit-1 of the filtered and projected list, in row order,
\* and matchingRows counts the rows that pass all filters.
C3_PaginatesAfterFilter ==
    QueryReturned =>
        /\ result.rows =
              Window(selectColumns(applyFilters(Parsed.rows, request.filters),
                                   request.columns),
                     request.offset, result.limit)
        /\ result.matchingRows =
              Cardinality({i \in 1..Len(Parsed.rows) : PassesAll(Parsed.rows[i])})

HasAllFilterColumns(row) ==
    \A i \in 1..Len(request.filters) :
        Get(row, request.filters[i].column).kind # "undefined"

\* C4: a fetched, non-empty table always yields a successful result; a row
\* without a value for the column of some filter is never among the matching
\* rows, whatever the operator and whatever the other filters.
C4_MissingColumnExcludesRow ==
    (pc = "done" /\ storage.ok /\ ~Parsed.threw /\ ~NoFile(request.fileUrl, csvFiles)) =>
        /\ result.success
        /\ result.matchingRows <=
              Cardinality({i \in 1..Len(Parsed.rows) :
                              HasAllFilterColumns(Parsed.rows[i])})
        /\ request.columns = <<>> =>
              \A r \in Range(result.rows) : HasAllFilterColumns(r)

\* profit # "north" AND sales > 100 over a table with a 150 row: nothing matches
C4_Witness ==
    /\ QueryReturned
    /\ Len(request.filters) = 2
    /\ request.filters[1].column = "profit"
    /\ request.filters[1].operator = "not_equals"
    /\ request.filters[2] = SalesAbove100
    /\ \E i \in 1..Len(Parsed.rows) : Get(Parsed.rows[i], "sales") = Num(150)
    /\ result.matchingRows = 0

\* the query returned every matching row (no row cut off by the pagination)
ReturnedAll ==
    QueryReturned /\ request.offset = 0 /\ result.returnedRows = result.matchingRows

\* C5: with a column list, each returned row holds exactly the requested
\* names the source row has a value for, with the source row's values, and
\* the rows are as many and in the same order as the filtered rows.
C5_ProjectionKeepsRequestedColumns ==
    (ReturnedAll /\ request.columns # <<>>) =>
        LET source == applyFilters(Parsed.rows, request.filters)
        IN  /\ Len(result.rows) = Len(source)
            /\ \A i \in 1..Len(source) :
                  /\ DOMAIN result.rows[i] =
                        {c \in Range(request.columns) :
                            Get(source[i], c).kind # "undefined"}
                  /\ \A c \in DOMAIN result.rows[i] :
                        result.rows[i][c] = source[i][c]

\* region and cost requested: the 50 row keeps region only, the 150 row nothing
C5_Witness ==
    /\ ReturnedAll
    /\ request.columns = <<"region", "cost">>
    /\ \E i \in 1..Len(result.rows) : DOMAIN result.rows[i] = {"region"}
    /\ \E i \in 1..Len(result.rows) : DOMAIN result.rows[i] = {}

(***************************************************************************)
(* The column profiler on its own: analyzeData profiles column "b" of a    *)
(* parsed file with the headers a, b.                                      *)
(***************************************************************************)
MaxValues == 5

ProfileFields == <<"a", "b">>

DateText == <<"x", "1", "/", "2", "/", "2", "4">>

\* the lines x,<cell> and the line x, which leaves b without a value
ProfileLine(cell) == << <<"x">>, cell >>

ShortLine == << <<"x">> >>

NumericLines == {ProfileLine(c) : c \in {<<"3">>, <<"5">>, <<"7">>, <<>>}}

TypedLines == {ProfileLine(c) : c \in {<<"7">>, <<"a", "b">>, DateText}} \cup {ShortLine}

\* the first line has both fields, so that b is a header of the table
ProfileContents ==
    {[fields |-> ProfileFields, data |-> d] :
        d \in {e \in SeqsUpTo(NumericLines, MaxValues)
                        \cup SeqsUpTo(TypedLines, MaxValues) :
                    e # <<>> /\ e[1] # ShortLine}}

InitProfile ==
    /\ pc = "profile"
    /\ storage \in {Fetched(c) : c \in ProfileContents}
    /\ column = "b"
    /\ stats = NoStats
    /\ csvFiles = <<>>
    /\ request = Request(Str(UrlA), <<>>, <<>>, DefaultLimit, 0)
    /\ actualFileUrl = Str(UrlA)
    /\ result = NoResult
    /\ columnStats = <<>> /\ recommendation = NoRecommendation
    /\ analyzeRequest = NoAnalyzeRequest /\ chart = NoChart
    /\ intentArgs = NoIntentArgs /\ intent = NoIntent
    /\ NoParse /\ NoCalls /\ fetchLog = <<>>

\* analyzeData's call analyzeColumn(header, parsed.rows)
AnalyzeColumn ==
    /\ pc = "profile"
    /\ stats' = analyzeColumn(column, Parsed.rows)
    /\ pc' = "profiled"
    /\ UNCHANGED <<analyzeRequest, chart, intentArgs, intent, parseVars, analyzeVars,
                   fetchLog>>
    /\ UNCHANGED <<csvFiles, request, storage, actualFileUrl, result,
                   column, columnStats, recommendation>>

NextProfile == AnalyzeColumn

SpecProfile == InitProfile /\ [][NextProfile]_vars

(***************************************************************************)
(* Claims on the column profiler.                                          *)
(***************************************************************************)
\* the cells of the profiled column, in row order, and those with a value
ColumnValues ==
    LET rows == Parsed.rows IN [i \in 1..Len(rows) |-> Get(rows[i], column)]

NonEmpty == SelectSeq(ColumnValues, LAMBDA v : v.kind # "undefined" /\ v # Str(<<>>))

Numbers == SelectSeq(NonEmpty, LAMBDA v : v.kind = "number")

Dates == SelectSeq(NonEmpty, LAMBDA v : v.kind = "string" /\ DATE_PATTERN(v.str))

Texts == SelectSeq(NonEmpty, LAMBDA v : v.kind = "string" /\ ~DATE_PATTERN(v.str))

AtLeast80(part) ==
    LET total == Len(NonEmpty) IN total > 0 /\ 5 * Len(part) >= 4 * total

Above80(part) == 5 * Len(part) > 4 * Len(NonEmpty)

\* C6 as stated: numeric when at least 80% of the non-empty values are
\* numbers, else date when at least 80% match the date pattern, else text when
\* at least 80% are other strings, else mixed (4 numbers out of 5: numeric).
C6_TypeByInclusiveThreshold ==
    pc = "profiled" =>
        stats.type = IF AtLeast80(Numbers) THEN "numeric"
                     ELSE IF AtLeast80(Dates) THEN "date"
                     ELSE IF AtLeast80(Texts) THEN "text"
                     ELSE "mixed"

\* C6 amended: the threshold is exclusive: numeric when more than 80% of the
\* non-empty values are numbers, else date when more than 80% match the date
\* pattern, else text when more than 80% are other strings, else mixed.
C6_TypeByExclusiveThreshold ==
    pc = "profiled" =>
        stats.type = IF Above80(Numbers) THEN "numeric"
                     ELSE IF Above80(Dates) THEN "date"
                     ELSE IF Above80(Texts) THEN "text"
                     ELSE "mixed"

\* exactly 4 numbers out of 5 non-empty values: the column is mixed
C6_Witness ==
    /\ pc = "profiled"
    /\ Len(NonEmpty) = 5 /\ Len(Numbers) = 4
    /\ stats.type = "mixed"

NumberSet == LET nums == Numbers IN {nums[i].num : i \in 1..Len(nums)}

\* C7: count + nullCount is the number of rows; for a numeric column min is
\* the least and max the greatest of the column's numbers, whatever the row
\* order, and min <= median <= max.
C7_CountsAndOrder ==
    pc = "profiled" =>
        /\ stats.count + stats.nullCount = Len(Parsed.rows)
        /\ (stats.type = "numeric" /\ stats.count > 0) =>
              LET numbers == NumberSet
              IN  /\ stats.min \in numbers /\ \A n \in numbers : stats.min <= n
                  /\ stats.max \in numbers /\ \A n \in numbers : stats.max >= n
                  /\ stats.min <= stats.median /\ stats.median <= stats.max

\* a numeric column that starts with its greatest number and has an empty cell
C7_Witness ==
    /\ pc = "profiled"
    /\ stats.type = "numeric" /\ stats.nullCount > 0
    /\ ColumnValues[1] = Num(stats.max)
    /\ stats.min < stats.median /\ stats.median < stats.max

\* m is the element at index k (from 0) of the ascending-sorted numbers
HasRank(m, k) ==
    LET nums == Numbers
    IN  /\ \E i \in 1..Len(nums) : nums[i].num = m
        /\ Cardinality({i \in 1..Len(nums) : nums[i].num < m}) <= k
        /\ k < Cardinality({i \in 1..Len(nums) : nums[i].num <= m})

\* C8 as stated: the median of a numeric column with n values is the element
\* at index floor(n/2) of the sorted values, and for an even n it is the
\* lower of the two middle elements (index n/2 - 1).
C8_MedianIsLowerMiddle ==
    (pc = "profiled" /\ stats.type = "numeric") =>
        LET n == Len(Numbers)
        IN  /\ HasRank(stats.median, n \div 2)
            /\ n % 2 = 0 => HasRank(stats.median, (n \div 2) - 1)

\* C8 amended: the median is the element at index floor(n/2) of the sorted
\* values, never an average; for an even n this is the upper of the two
\* middle elements (index n/2), not the lower (index n/2 - 1).
C8_MedianIsUpperMiddle ==
    (pc = "profiled" /\ stats.type = "numeric") =>
        LET n == Len(Numbers)
        IN  /\ HasRank(stats.median, n \div 2)
            /\ n % 2 = 0 =>
                  \A m \in NumberSet :
                      HasRank(m, (n \div 2) - 1) => m <= stats.median

\* four numbers whose two middle elements differ: the median is the upper one
C8_Witness ==
    /\ pc = "profiled" /\ stats.type = "numeric"
    /\ Len(Numbers) = 4
    /\ HasRank(stats.median, 2) /\ ~HasRank(stats.median, 1)

Keys == [i \in 1..Len(NonEmpty) |-> String(NonEmpty[i])]

Occurrences(keys, key) == Cardinality({i \in 1..Len(keys) : keys[i] = key})

MostFrequent(keys, i) ==
    \A j \in 1..Len(keys) : Occurrences(keys, keys[j]) <= Occurrences(keys, keys[i])

MaxColumns == 3

Headers == <<"c1", "c2", "c3", "c4", "c5">>

\* what the recommender reads of a column: its type and, for a text column,
\* whether its unique values are fewer than 10 and fewer than 20
ColumnKinds ==
    {[type |-> t, uniqueCount |-> 5] : t \in {"numeric", "date", "mixed"}}
        \cup {[type |-> "text", uniqueCount |-> u] : u \in {9, 10, 19, 20}}

StatsOf(name, kind) ==
    [NoStats EXCEPT !.column = name, !.type = kind.type,
                    !.uniqueCount = kind.uniqueCount, !.count = kind.uniqueCount]

StatsLists ==
    {[i \in 1..Len(kinds) |-> StatsOf(Headers[i], kinds[i])] :
        kinds \in SeqsUpTo(ColumnKinds, MaxColumns)}

InitRecommend ==
    /\ pc = "recommend"
    /\ columnStats \in StatsLists
    /\ recommendation = NoRecommendation
    /\ csvFiles = <<>>
    /\ request = Request(Str(UrlA), <<>>, <<>>, DefaultLimit, 0)
    /\ storage = Fetched(EmptyContent)
    /\ actualFileUrl = Str(UrlA)
    /\ result = NoResult
    /\ column = "" /\ stats = NoStats
    /\ analyzeRequest = NoAnalyzeRequest /\ chart = NoChart
    /\ intentArgs = NoIntentArgs /\ intent = NoIntent
    /\ NoParse /\ NoCalls /\ fetchLog = <<>>

\* analyzeData's call generateVisualizationRecommendations(parsed, columnStats)
RecommendChart ==
    /\ pc = "recommend"
    /\ recommendation' = generateVisualizationRecommendations(columnStats)
    /\ pc' = "recommended"
    /\ UNCHANGED <<analyzeRequest, chart, intentArgs, intent, parseVars, analyzeVars,
                   fetchLog>>
    /\ UNCHANGED <<csvFiles, request, storage, actualFileUrl, result,
                   column, stats, columnStats>>

NextRecommend == RecommendChart

SpecRecommend == InitRecommend /\ [][NextRecommend]_vars

(***************************************************************************)
(* Claims on the chart recommender.                                        *)
(***************************************************************************)
ColumnsOfType(type) == {i \in 1..Len(columnStats) : columnStats[i].type = type}

\* names lists the columns with the indexes in idx, in column order
ListsInOrder(names, idx) ==
    /\ Len(names) = Cardinality(idx)
    /\ \A i \in idx :
          names[Cardinality({j \in idx : j < i}) + 1] = columnStats[i].column

\* C10: with a date column and a numeric column among the statistics, in any
\* order and beside any text or mixed columns, the recommendation is a line
\* chart over the first date column with all numeric columns as y axis.
C10_DateAndNumericGiveLine ==
    (pc = "recommended" /\ ColumnsOfType("date") # {} /\ ColumnsOfType("numeric") # {}) =>
        /\ recommendation.suggestedChartType = "line"
        /\ recommendation.hasXAxis
        /\ \E i \in ColumnsOfType("date") :
              /\ \A j \in ColumnsOfType("date") : i <= j
              /\ recommendation.xAxis = columnStats[i].column
        /\ recommendation.hasYAxis
        /\ ListsInOrder(recommendation.yAxis, ColumnsOfType("numeric"))

\* a small text column, a numeric column and then the date column: still line
C10_Witness ==
    /\ pc = "recommended"
    /\ Len(columnStats) = 3
    /\ columnStats[1].type = "text" /\ columnStats[1].uniqueCount = 9
    /\ columnStats[2].type = "numeric"
    /\ columnStats[3].type = "date"
    /\ recommendation.suggestedChartType = "line"
    /\ recommendation.xAxis = "c3"
    /\ recommendation.yAxis = <<"c2">>

Rule1 == ColumnsOfType("date") # {} /\ ColumnsOfType("numeric") # {}

\* the text columns with fewer than bound unique values
SmallText(bound) ==
    {i \in ColumnsOfType("text") : columnStats[i].uniqueCount < bound}

\* the categorical column chart, not the axis-less fallback column chart
CategoryChart ==
    /\ recommendation.suggestedChartType = "column"
    /\ recommendation.hasXAxis /\ recommendation.hasYAxis

First(idx) == CHOOSE i \in idx : \A j \in idx : i <= j

\* C11 as stated: when rule 1 does not apply, the categorical column chart
\* is recommended exactly when there is exactly one text column, it has fewer
\* than 20 unique values, and there is exactly one numeric column.
C11_CategoryNeedsOneTextColumn ==
    (pc = "recommended" /\ ~Rule1) =>
        (CategoryChart <=>
            /\ Cardinality(ColumnsOfType("text")) = 1
            /\ SmallText(20) # {}
            /\ Cardinality(ColumnsOfType("numeric")) = 1)

\* C11 amended: when rule 1 does not apply, the categorical column chart is
\* recommended exactly when some text column has fewer than 20 unique values
\* and there is exactly one numeric column, however many text columns there
\* are; x is the first such text column and y the numeric column.
C11_CategoryNeedsSomeSmallTextColumn ==
    (pc = "recommended" /\ ~Rule1) =>
        /\ CategoryChart <=>
              (SmallText(20) # {} /\ Cardinality(ColumnsOfType("numeric")) = 1)
        /\ CategoryChart =>
              /\ recommendation.xAxis = columnStats[First(SmallText(20))].column
              /\ ListsInOrder(recommendation.yAxis, ColumnsOfType("numeric"))

\* two text columns, only the second with fewer than 20 values, one numeric
C11_Witness ==
    /\ pc = "recommended"
    /\ Len(columnStats) = 3
    /\ columnStats[1].type = "text" /\ columnStats[1].uniqueCount = 20
    /\ columnStats[2].type = "text" /\ columnStats[2].uniqueCount = 19
    /\ columnStats[3].type = "numeric"
    /\ CategoryChart
    /\ recommendation.xAxis = "c2" /\ recommendation.yAxis = <<"c3">>

Rule2 == SmallText(20) # {} /\ Cardinality(ColumnsOfType("numeric")) = 1

\* C12: after rules 1 and 2 fail, two or more numeric columns give line over
\* the first numeric column with the other numeric columns as y; else one
\* numeric column gives histogram on it; else a text column with fewer than
\* 10 unique values gives pie on the first such column; else the column chart
\* without axes.  The recommendation is thereby a function of the column
\* statistics, and its reasoning is never empty.
C12_RulesInPriorityOrder ==
    pc = "recommended" =>
        /\ recommendation.reasoning # ""
        /\ (~Rule1 /\ ~Rule2) =>
              LET numeric == ColumnsOfType("numeric")
              IN  IF Cardinality(numeric) >= 2
                  THEN /\ recommendation.suggestedChartType = "line"
                       /\ recommendation.hasXAxis /\ recommendation.hasYAxis
                       /\ recommendation.xAxis = columnStats[First(numeric)].column
                       /\ ListsInOrder(recommendation.yAxis, numeric \ {First(numeric)})
                  ELSE IF Cardinality(numeric) = 1
                  THEN /\ recommendation.suggestedChartType = "histogram"
                       /\ recommendation.hasXAxis
                       /\ recommendation.xAxis = columnStats[First(numeric)].column
                       /\ recommendation.hasYAxis /\ recommendation.yAxis = <<>>
                  ELSE IF SmallText(10) # {}
                  THEN /\ recommendation.suggestedChartType = "pie"
                       /\ recommendation.hasXAxis
                       /\ recommendation.xAxis = columnStats[First(SmallText(10))].column
                       /\ recommendation.hasYAxis /\ recommendation.yAxis = <<>>
                  ELSE /\ recommendation.suggestedChartType = "column"
                       /\ ~recommendation.hasXAxis /\ ~recommendation.hasYAxis

\* a text column with 9 values beside two numeric columns: line, not pie
C12_Witness ==
    /\ pc = "recommended"
    /\ Len(columnStats) = 3
    /\ columnStats[1].type = "text" /\ columnStats[1].uniqueCount = 9
    /\ columnStats[2].type = "numeric" /\ columnStats[3].type = "numeric"
    /\ recommendation.suggestedChartType = "line"
    /\ recommendation.xAxis = "c2" /\ recommendation.yAxis = <<"c3">>

(***************************************************************************)
(* The chart data builder on its own: the part of analyzeCSV's execute     *)
(* from the parsed table to the chart configuration.                       *)
(***************************************************************************)
ChartFields == <<"a", "b">>

ChartLine(cell) == << <<"a", "b">>, cell >>

\* the cells of column b; the last line has no field for b
ChartLines ==
    {ChartLine(c) : c \in {<<"5">>, <<"1", "2">>, <<"2", "5">>, <<>>, <<"a", "b">>}}
        \cup {<< <<"a", "b">> >>}

ChartContents ==
    {[fields |-> ChartFields, data |-> d] : d \in SeqsUpTo(ChartLines, MaxRows) \ {<<>>}}

ChartTypes == {"column", "bar", "line", "pie", "histogram", "area", "auto"}

ChartRequests ==
    {AnalyzeRequest(t, <<>>) : t \in ChartTypes}
        \cup {AnalyzeRequest(t, c) : t \in {"auto", "histogram"}, c \in {<<"b">>, <<"z">>}}
        \cup {AnalyzeRequest("pie", <<"b">>)}

InitChart ==
    /\ pc = "chart"
    /\ storage \in {Fetched(c) : c \in ChartContents}
    /\ analyzeRequest \in ChartRequests
    /\ chart = NoChart
    /\ columnStats = <<>> /\ recommendation = NoRecommendation
    /\ intentArgs = NoIntentArgs /\ intent = NoIntent
    /\ NoParse /\ NoCalls /\ fetchLog = <<>>
    /\ csvFiles = <<>>
    /\ request = Request(Str(UrlA), <<>>, <<>>, DefaultLimit, 0)
    /\ actualFileUrl = Str(UrlA)
    /\ result = NoResult
    /\ column = "" /\ stats = NoStats

\* execute from parseCSV(csvContent) to generateChartData(...)
BuildChart ==
    /\ pc = "chart"
    /\ LET filteredParsed == FilterColumns(parseCSV(storage.content),
                                           analyzeRequest.columns)
           analysis == analyzeData(filteredParsed)
           finalChartType == IF analyzeRequest.chartType = "auto"
                             THEN analysis.recommendations.suggestedChartType
                             ELSE analyzeRequest.chartType
       IN  /\ columnStats' = analysis.columnStats
           /\ recommendation' = analysis.recommendations
           /\ chart' = [type |-> finalChartType,
                        data |-> generateChartData(filteredParsed, analysis,
                                                   finalChartType)]
    /\ pc' = "charted"
    /\ UNCHANGED <<csvFiles, request, storage, actualFileUrl, result,
                   column, stats, analyzeRequest, intentArgs, intent,
                   parseVars, analyzeVars, fetchLog>>

NextChart == BuildChart

SpecChart == InitChart /\ [][NextChart]_vars

(***************************************************************************)
(* Claims on the chart data builder.                                       *)
(***************************************************************************)
\* the table the chart is built from
FilteredParsed == FilterColumns(Parsed, analyzeRequest.columns)

Charted(types) == pc = "charted" /\ chart.type \in types

\* the cells, in row order, of the column the single dataset is labelled with
ChosenCells ==
    LET rows == FilteredParsed.rows
    IN  [i \in 1..Len(rows) |-> Get(rows[i], chart.data.datasets[1].label)]

\* the valid numbers of that column
ValidNumbers ==
    LET cells == SelectSeq(ChosenCells, LAMBDA v : v.kind = "number")
    IN  [i \in 1..Len(cells) |-> cells[i].num]

\* C13: the histogram of a column with a valid number has 10 labels and 10
\* bin counts, and the counts sum to the number of valid numbers of the
\* column: a cell that is no number is counted in no bin.
C13_TenBinsCountValidNumbers ==
    (Charted({"histogram"}) /\ ValidNumbers # <<>>) =>
        /\ Len(chart.data.labels) = 10
        /\ Len(chart.data.datasets) = 1
        /\ Len(chart.data.datasets[1].data) = 10
        /\ Sum(chart.data.datasets[1].data) = Len(ValidNumbers)

\* C14: with min and max the least and greatest valid number of the column,
\* bin b (from 0) counts the valid numbers v with
\* floor((v - min) / ((max - min) / 10)) = b, 10 counted as 9; when
\* min = max one bin holds all of them.
C14_BinOfEachValue ==
    (Charted({"histogram"}) /\ ValidNumbers # <<>>) =>
        LET nums == ValidNumbers
            lo == MinOf(nums)
            hi == MaxOf(nums)
            bins == chart.data.datasets[1].data
        IN  /\ Len(bins) = 10
            /\ IF lo = hi
               THEN \E b \in 1..10 :
                        /\ bins[b] = Len(nums)
                        /\ \A c \in 1..10 : c # b => bins[c] = 0
               ELSE \A b \in 1..10 :
                        bins[b] = Cardinality({i \in 1..Len(nums) :
                            Min((10 * (nums[i] - lo)) \div (hi - lo), 9) = b - 1})

\* C15: the histogram of a column without any valid number is the
\* placeholder: one label and one dataset with the data [0].
C15_NoNumbersGivePlaceholder ==
    (Charted({"histogram"}) /\ ValidNumbers = <<>>) =>
        /\ Len(chart.data.labels) = 1
        /\ Len(chart.data.datasets) = 1
        /\ chart.data.datasets[1].data = <<0>>

\* the first row that holds the key
FirstRowOf(keys, key) == CHOOSE i \in 1..Len(keys) :
    keys[i] = key /\ \A j \in 1..(i - 1) : keys[j] # key

\* C16: the pie chart has one label per distinct value of the category
\* column, in order of first appearance in the rows, whatever the values
\* are; its single dataset holds for each label the number of rows with that
\* value, and these sum to the number of rows.
C16_PieLabelsInRowOrder ==
    Charted({"pie"}) =>
        LET keys == [i \in 1..Len(ChosenCells) |-> String(ChosenCells[i])]
            labels == chart.data.labels
            data == chart.data.datasets[1].data
        IN  /\ Len(chart.data.datasets) = 1
            /\ Range(labels) = Range(keys)
            /\ Len(labels) = Cardinality(Range(keys))
            /\ \A j, k \in 1..Len(labels) :
                  j < k => FirstRowOf(keys, labels[j]) < FirstRowOf(keys, labels[k])
            /\ Len(data) = Len(labels)
            /\ \A k \in 1..Len(labels) :
                  data[k] = Cardinality({i \in 1..Len(keys) : keys[i] = labels[k]})
            /\ Sum(data) = Len(FilteredParsed.rows)

AxisTypes == {"column", "bar", "line", "area"}

\* C17: a column, bar, line or area chart has one label per row, the text of
\* the row's cell in one x column, and one dataset per y column (the
\* recommended ones, else the numeric headers), each with one number per
\* row: the cell when it is a number, else 0.
C17_OnePointPerRow ==
    Charted(AxisTypes) =>
        LET rows == FilteredParsed.rows
            headers == FilteredParsed.headers
            labels == chart.data.labels
            datasets == chart.data.datasets
            yAxes == IF recommendation.hasYAxis THEN recommendation.yAxis
                     ELSE SelectSeq(headers, LAMBDA h :
                              \E i \in ColumnsOfType("numeric") : columnStats[i].column = h)
        IN  /\ Len(labels) = Len(rows)
            /\ \E x \in Range(headers) \cup {NoHeader} :
                  \A i \in 1..Len(rows) : labels[i] = String(Get(rows[i], x))
            /\ Len(datasets) = Len(yAxes)
            /\ \A k \in 1..Len(datasets) :
                  /\ datasets[k].label = yAxes[k]
                  /\ Len(datasets[k].data) = Len(rows)
                  /\ \A i \in 1..Len(rows) :
                        LET cell == Get(rows[i], yAxes[k])
                        IN  datasets[k].data[i] =
                                IF cell.kind = "number" THEN cell.num ELSE 0

\* a line chart of three rows whose y column has an empty cell and a missing
\* cell: both are plotted as 0
C17_Witness ==
    /\ Charted({"line"})
    /\ Len(FilteredParsed.rows) = 3
    /\ Get(FilteredParsed.rows[2], "b") = Str(<<>>)
    /\ Get(FilteredParsed.rows[3], "b") = Undefined
    /\ Len(chart.data.labels) = 3
    /\ Len(chart.data.datasets) = 1
    /\ chart.data.datasets[1].label = "b"
    /\ chart.data.datasets[1].data = <<25, 0, 0>>

(***************************************************************************)
(* The intent analysis on its own.  A prompt is the example prompt or up   *)
(* to MaxWords words joined by single spaces.                              *)
(***************************************************************************)
MaxWords == 2

Words ==
    {<<"P", "l", "o", "t">>,
     <<"b", "a", "r", "s">>,
     <<"L", "I", "N", "E", "S">>,
     <<"p", "i", "e">>,
     <<"s", "c", "a", "t", "t", "e", "r">>,
     <<"f", "r", "e", "q", "u", "e", "n", "c", "y">>,
     <<"h", "e", "a", "t", "m", "a", "p">>,
     <<"a", "r", "e", "a">>,
     <<"c", "h", "a", "r", "t">>,
     <<"s", "a", "l", "e", "s">>,
     <<"v", "e", "r", "s", "u", "s">>,
     <<"h", "e", "l", "l", "o">>}

RECURSIVE Join(_)
Join(ws) ==
    IF ws = <<>> THEN <<>>
    ELSE IF Len(ws) = 1 THEN ws[1]
    ELSE ws[1] \o <<" ">> \o Join(Tail(ws))

ExamplePrompt ==
    Join(<<<<"c", "a", "n">>,
           <<"y", "o", "u">>,
           <<"p", "l", "o", "t">>,
           <<"a">>,
           <<"p", "i", "e">>,
           <<"c", "h", "a", "r", "t">>,
           <<"o", "f">>,
           <<"r", "e", "g", "i", "o", "n">>>>)

Prompts == {Join(ws) : ws \in SeqsUpTo(Words, MaxWords)} \cup {ExamplePrompt}

InitIntent ==
    /\ pc = "intent"
    /\ intentArgs \in {IntentArgs(prompt, attached, hasHeaders,
                                  IF hasHeaders THEN <<"sales", "region">> ELSE <<>>) :
                          prompt \in Prompts, attached \in BOOLEAN,
                          hasHeaders \in BOOLEAN}
    /\ intent = NoIntent
    /\ NoParse /\ NoCalls /\ fetchLog = <<>>
    /\ analyzeRequest = NoAnalyzeRequest /\ chart = NoChart
    /\ columnStats = <<>> /\ recommendation = NoRecommendation
    /\ csvFiles = <<>>
    /\ request = Request(Str(UrlA), <<>>, <<>>, DefaultLimit, 0)
    /\ storage = Fetched(EmptyContent)
    /\ actualFileUrl = Str(UrlA)
    /\ result = NoResult
    /\ column = "" /\ stats = NoStats

AnalyzeIntent ==
    /\ pc = "intent"
    /\ intent' = analyzeIntent(intentArgs.prompt, intentArgs.hasCSVAttachment,
                               intentArgs.hasHeaders, intentArgs.csvHeaders)
    /\ pc' = "analyzed"
    /\ UNCHANGED <<csvFiles, request, storage, actualFileUrl, result, column, stats,
                   columnStats, recommendation, analyzeRequest, chart, intentArgs,
                   parseVars, analyzeVars, fetchLog>>

NextIntent == AnalyzeIntent

SpecIntent == InitIntent /\ [][NextIntent]_vars

(***************************************************************************)
(* Claims on the intent analysis.                                          *)
(***************************************************************************)
\* C18: without an attachment the analysis is, for every prompt and header
\* list, shouldAnalyze = false, chartType = null, columns = [],
\* isComparison = false and confidence = low.
C18_NoAttachmentGivesLowConfidence ==
    (pc = "analyzed" /\ ~intentArgs.hasCSVAttachment) =>
        intent = IntentAnalysis(FALSE, "null", <<>>, FALSE, "low")

\* the prompt in lower case contains one of the analysis, visualization or
\* exploration keywords
HasIntentKeyword ==
    LET text == toLowerCase(intentArgs.prompt)
    IN  \E kw \in Range(analysisKeywords) \cup Range(visualizationKeywords)
                    \cup Range(explorationKeywords) : includes(text, kw)

\* C19: with an attachment, shouldAnalyze tells whether the prompt has an
\* intent keyword, and confidence is high exactly when shouldAnalyze holds
\* and a chart type was found, medium exactly when shouldAnalyze holds and
\* chartType is null, and low otherwise; the example prompt gives
\* shouldAnalyze = true, chartType = pie, confidence = high.
C19_ConfidenceLevels ==
    (pc = "analyzed" /\ intentArgs.hasCSVAttachment) =>
        /\ intent.shouldAnalyze <=> HasIntentKeyword
        /\ intent.confidence = "high" <=>
              (intent.shouldAnalyze /\ intent.chartType # "null")
        /\ intent.confidence = "medium" <=>
              (intent.shouldAnalyze /\ intent.chartType = "null")
        /\ intent.confidence = "low" <=> ~intent.shouldAnalyze
        /\ intentArgs.prompt = ExamplePrompt =>
              /\ intent.shouldAnalyze
              /\ intent.chartType = "pie"
              /\ intent.confidence = "high"

\* the prompt "bars" names a chart type but has no intent keyword: low
C19_Witness ==
    /\ pc = "analyzed" /\ intentArgs.hasCSVAttachment
    /\ intentArgs.prompt = <<"b", "a", "r", "s">>
    /\ intent.chartType = "bar"
    /\ ~intent.shouldAnalyze
    /\ intent.confidence = "low"

GroupOrder == <<"bar", "line", "pie", "scatter", "histogram", "heatmap", "area">>

\* group g of the list has a keyword that occurs in the prompt, in any case
GroupMatches(g) ==
    LET text == toLowerCase(intentArgs.prompt)
    IN  \E kw \in Range(chartTypes[g].keywords) : includes(text, kw)

\* C20: the detected chart type is that of the first group, in the order
\* bar, line, pie, scatter, histogram, heatmap, area, with a keyword that
\* occurs in the prompt in any case, wherever it occurs; it is null exactly
\* when no group matches.
C20_FirstGroupWins ==
    (pc = "analyzed" /\ intentArgs.hasCSVAttachment) =>
        /\ \A g \in 1..7 :
              /\ chartTypes[g].type = GroupOrder[g]
              /\ intent.chartType = GroupOrder[g] <=>
                    (GroupMatches(g) /\ \A h \in 1..(g - 1) : ~GroupMatches(h))
        /\ intent.chartType = "null" <=> \A g \in 1..7 : ~GroupMatches(g)

\* "pie LINES": the line group comes first in the list, though pie comes
\* first in the prompt, and LINES is in upper case
C20_Witness ==
    /\ pc = "analyzed" /\ intentArgs.hasCSVAttachment
    /\ intentArgs.prompt = <<"p", "i", "e", " ", "L", "I", "N", "E", "S">>
    /\ intent.chartType = "line"

(***************************************************************************)
(* parseCSV on its own.                                                    *)
(***************************************************************************)
ParseFields == <<"a", "b">>

\* the texts of column b
ParseCells ==
    {<<"4", "2">>,
     <<" ", "4", "2", " ">>,
     <<"4", "2", "a", "b", "c">>,
     <<"2", "0", "2", "4", "-", "0", "1", "-", "1", "5">>,
     <<>>,
     <<"I", "n", "f", "i", "n", "i", "t", "y">>,
     <<"a", "b", "c">>}

\* the last line has no field for b
ParseLines == {<< <<"x">>, c >> : c \in ParseCells} \cup {<< <<"x">> >>}

\* the empty text, a header line only, or up to MaxRows data lines
ParseContents ==
    {EmptyContent}
        \cup {[fields |-> ParseFields, data |-> d] : d \in SeqsUpTo(ParseLines, MaxRows)}

InitParse ==
    /\ pc = "parse"
    /\ storage \in {Fetched(c) : c \in ParseContents}
    /\ table = NoTable /\ warnings = {}
    /\ NoCalls /\ fetchLog = <<>>
    /\ intentArgs = NoIntentArgs /\ intent = NoIntent
    /\ analyzeRequest = NoAnalyzeRequest /\ chart = NoChart
    /\ columnStats = <<>> /\ recommendation = NoRecommendation
    /\ csvFiles = <<>>
    /\ request = Request(Str(UrlA), <<>>, <<>>, DefaultLimit, 0)
    /\ actualFileUrl = Str(UrlA)
    /\ result = NoResult
    /\ column = "" /\ stats = NoStats

\* one call parseCSV(csvContent)
ParseCSV ==
    /\ pc = "parse"
    /\ warnings' = PapaErrors(storage.content)
    /\ table' = parseCSV(storage.content)
    /\ pc' = "parsed"
    /\ UNCHANGED <<csvFiles, request, storage, actualFileUrl, result, column, stats,
                   columnStats, recommendation, analyzeRequest, chart, intentArgs,
                   intent, analyzeVars, fetchLog>>

NextParse == ParseCSV

SpecParse == InitParse /\ [][NextParse]_vars

(***************************************************************************)
(* Claims on parseCSV.                                                     *)
(***************************************************************************)
ParsedTable == pc = "parsed" /\ ~table.threw

\* C21: a returned table has rowCount rows and columnCount headers, and
\* every row holds a number or a string, never undefined, for every header,
\* also when a line has fewer fields than the header line.
C21_TableWellFormed ==
    ParsedTable =>
        /\ table.rowCount = Len(table.rows)
        /\ table.columnCount = Len(table.headers)
        /\ \A i \in 1..Len(table.rows) : \A h \in Range(table.headers) :
              Get(table.rows[i], h).kind \in {"number", "string"}

\* the text is, after trimming, an optional sign and a run of digits
WholeDecimal(text) ==
    LET t == TrimEnd(TrimStart(text))
        body == IF t # <<>> /\ Head(t) \in {"+", "-"} THEN Tail(t) ELSE t
    IN  body # <<>> /\ \A k \in 1..Len(body) : IsDigit(body[k])

DecimalValue(text) ==
    LET t == TrimEnd(TrimStart(text))
        negative == Head(t) = "-"
        body == IF Head(t) \in {"+", "-"} THEN Tail(t) ELSE t
    IN  IF negative THEN -DigitsValue(body, 0) ELSE DigitsValue(body, 0)

\* C22: a cell becomes a number only if its whole trimmed text is a decimal
\* number; every other cell ("42abc", "2024-01-15", "", "Infinity") is kept
\* as the string it was.
C22_OnlyWholeNumbersConvert ==
    ParsedTable =>
        \A i \in 1..Len(table.rows) :
            \A j \in 1..Min(Len(storage.content.data[i]), Len(storage.content.fields)) :
                LET text == storage.content.data[i][j]
                    header == storage.content.fields[j]
                IN  header \in Range(table.headers) =>
                        table.rows[i][header] =
                            IF WholeDecimal(text) THEN Num(DecimalValue(text))
                            ELSE Str(text)

\* C23: parseCSV throws exactly when PapaParse produced no data row (the
\* empty text, a header line only); warnings alone do not make it throw.
C23_ThrowsOnlyWithoutRows ==
    pc = "parsed" =>
        /\ table.threw <=> storage.content.data = <<>>
        /\ (warnings # {} /\ storage.content.data # <<>>) => ~table.threw

\* a table of two rows is returned although the second line lacks a field
C23_Witness ==
    /\ pc = "parsed"
    /\ warnings = {2}
    /\ ~table.threw
    /\ table.rowCount = 2

(***************************************************************************)
(* The chart tool analyzeCSV (src/lib/ai/tools/analyze-csv.ts).  A call is *)
(* [request, pc, actualFileUrl, result, saving]; pc is "start", then       *)
(* "fetching" while execute() waits for fetchCSVContent, then "returned".  *)
(* The response text (message) of a successful result is left out.         *)
(***************************************************************************)
CallIds == {"analyzeCSV 1", "analyzeCSV 2"}

\* session?.user?.id
HasUserIdAlways(userId) == TRUE

HasUserId(userId) == userId # ""

PartTypes == <<"data-id", "data-title", "data-kind", "data-chartDelta", "data-finish">>

\* one entry of effects
Effect(c, kind, data) == [call |-> c, kind |-> kind, data |-> data]

\* `Data Visualization - ${finalChartType} chart`
Title(finalChartType) == "Data Visualization - " \o finalChartType \o " chart"

\* the chart type when the caller's choice is ignored
FinalChartTypeSuggested(chartType, analysis) ==
    analysis.recommendations.suggestedChartType

FinalChartType(chartType, analysis) ==
    IF chartType = "auto" THEN analysis.recommendations.suggestedChartType
    ELSE chartType

ChartConfig(finalChartType, chartData, recommendations) ==
    [type |-> finalChartType,
     data |-> chartData,
     title |-> finalChartType \o " Chart",
     xAxisLabel |-> IF recommendations.hasXAxis /\ recommendations.xAxis # ""
                    THEN recommendations.xAxis ELSE "X Axis",
     yAxisLabel |-> IF recommendations.hasYAxis /\ recommendations.yAxis # <<>>
                       /\ recommendations.yAxis[1] # ""
                    THEN recommendations.yAxis[1] ELSE "Y Axis"]

\* JSON.stringify(value): the text that denotes value
JSONstringify(value) == [json |-> value]

NoAnalysis == [columnStats |-> <<>>, recommendations |-> NoRecommendation]

AnalyzeResult(success, error, message, analysis, chartType, artifactId, title) ==
    [success |-> success, error |-> error, message |-> message,
     analysis |-> analysis, chartType |-> chartType, artifactId |-> artifactId,
     title |-> title]

\* the result of the outer catch block (the message is cut before the URL)
AnalyzeFailure(error) ==
    AnalyzeResult(FALSE, error, "Failed to analyze CSV: " \o error,
                  NoAnalysis, "", <<>>, "")

AnalyzeNoFile ==
    AnalyzeResult(FALSE, "No CSV file available",
                  "No CSV file URL provided and no CSV files found in the conversation. Please upload a CSV file first.",
                  NoAnalysis, "", <<>>, "")

AnalyzeSuccess(analysis, finalChartType, artifactId) ==
    AnalyzeResult(TRUE, "", "", analysis, finalChartType, artifactId,
                  Title(finalChartType))

NoAnalyzeResult == AnalyzeResult(FALSE, "none", "", NoAnalysis, "", <<>>, "")

Call(req) ==
    [request |-> req, pc |-> "start", actualFileUrl |-> Undefined,
     result |-> NoAnalyzeResult, saving |-> <<>>]

\* the call after the outer catch block, if it called execute() again
CaughtRetrying(call, error) == [call EXCEPT !.pc = "start"]

\* the call after the outer catch block returned
Caught(call, error) ==
    [call EXCEPT !.pc = "returned", !.result = AnalyzeFailure(error)]

\* the extracted key of a URL that has one
Key(url) == IF StartsWith(url, ProxyPath) THEN KeyParam(url) ELSE R2Key(url)

\* what r2Client.send answers for the key of url
Answer(url) ==
    IF KeyError(url) = "" /\ Key(url) \in DOMAIN bucket THEN bucket[Key(url)]
    ELSE FetchError("The specified key does not exist.")

\* execute() from parseCSV to JSON.stringify(chartConfig): the locals the
\* rest of execute() reads, or that parseCSV threw
Prepared(req, csvContent) ==
    LET parsed == parseCSV(csvContent)
        filteredParsed == FilterColumns(parsed, req.columns)
        analysis == analyzeData(filteredParsed)
        finalChartType == FinalChartType(req.chartType, analysis)
    IN  IF parsed.threw
        THEN [threw |-> TRUE, analysis |-> NoAnalysis, finalChartType |-> "",
              chartConfigString |-> JSONstringify(<<>>)]
        ELSE [threw |-> FALSE,
              analysis |-> analysis,
              finalChartType |-> finalChartType,
              chartConfigString |->
                  JSONstringify(ChartConfig(finalChartType,
                                            generateChartData(filteredParsed, analysis,
                                                              finalChartType),
                                            analysis.recommendations))]

\* the five dataStream.write calls
Parts(c, artifactId, prepared) ==
    <<Effect(c, "data-id", artifactId),
      Effect(c, "data-title", Title(prepared.finalChartType)),
      Effect(c, "data-kind", "chart"),
      Effect(c, "data-chartDelta", prepared.chartConfigString),
      Effect(c, "data-finish", "null")>>

\* the argument of saveDocument
Document(artifactId, prepared, userId) ==
    [id |-> artifactId, title |-> Title(prepared.finalChartType), kind |-> "chart",
     content |-> prepared.chartConfigString, userId |-> userId]

\* the document saved before the parts are written
StartedSaveFirst(parts, save) == save \o parts

\* the writes, then the call of saveDocument
Started(parts, save) == parts \o save

\* the inner try block when dataStream accepts `accepted` writes and throws
\* at the next one: [call, entries, ids] with the new effects and the
\* number of ids taken
RunChart(c, call, prepared, accepted, id, userId) ==
    LET parts == Parts(c, <<id>>, prepared)
        document == Document(<<id>>, prepared, userId)
    IN  IF accepted < Len(parts)
        THEN [call |-> Caught(call, "Failed to write chart to stream: stream error"),
              entries |-> SubSeq(parts, 1, accepted), ids |-> 1]
        ELSE [call |-> [call EXCEPT
                           !.pc = "returned",
                           !.result = AnalyzeSuccess(prepared.analysis,
                                                     prepared.finalChartType, <<id>>),
                           !.saving = IF HasUserId(userId) THEN <<document>>
                                      ELSE <<>>],
              entries |-> Started(parts,
                                  IF HasUserId(userId)
                                  THEN <<Effect(c, "saveDocument", document)>>
                                  ELSE <<>>),
              ids |-> 1]

\* execute() writing the artifact id before it parses
RunIdBeforeParse(c, call, prepared, accepted, id, userId) ==
    IF prepared.threw
    THEN [call |-> Caught(call, "CSV file is empty or could not be parsed"),
          entries |-> <<Effect(c, "data-id", <<id>>)>>, ids |-> 1]
    ELSE RunChart(c, call, prepared, accepted, id, userId)

\* execute() from parseCSV to its return
Run(c, call, prepared, accepted, id, userId) ==
    IF prepared.threw
    THEN [call |-> Caught(call, "CSV file is empty or could not be parsed"),
          entries |-> <<>>, ids |-> 0]
    ELSE RunChart(c, call, prepared, accepted, id, userId)

\* the entries placed around what the stream already holds
WrittenAround(log, entries) ==
    IF entries = <<>> THEN log
    ELSE <<Head(entries)>> \o log \o Tail(entries)

\* effects after one uninterrupted run of execute()
Written(log, entries) == log \o entries

(***************************************************************************)
(* The tools at work: two concurrent calls of analyzeCSV on one data       *)
(* stream, or one call of queryCSVRows.                                    *)
(***************************************************************************)
TextAndNumber ==
    [fields |-> <<"a", "b">>,
     data |-> << << <<"x">>, <<"1">> >>, << <<"y">>, <<"2">> >>, << <<"x">>, <<"4">> >> >>]

NumberColumn ==
    [fields |-> <<"n">>, data |-> << << <<"3">> >>, << <<"5">> >> >>]

HeaderOnly == [fields |-> <<"a", "b">>, data |-> <<>>]

Buckets ==
    {[k \in {<<"a">>, <<"b">>} |-> IF k = <<"a">> THEN a ELSE Fetched(NumberColumn)] :
        a \in {FetchError("File not found in R2 bucket"), Fetched(EmptyContent),
               Fetched(HeaderOnly), Fetched(TextAndNumber)}}

FirstRequests ==
    {[fileUrl |-> u, chartType |-> t, columns |-> <<>>] :
        u \in {Undefined, Str(<<" ">>), Str(UrlA), Str(ProxyPath)},
        t \in {"auto", "pie"}}

SecondRequests ==
    {[fileUrl |-> Str(UrlB), chartType |-> t, columns |-> <<>>] : t \in {"auto"}}

InitTools ==
    /\ actualFileUrl = Undefined
    /\ result = NoResult
    /\ column = "" /\ stats = NoStats
    /\ columnStats = <<>> /\ recommendation = NoRecommendation
    /\ analyzeRequest = NoAnalyzeRequest /\ chart = NoChart
    /\ intentArgs = NoIntentArgs /\ intent = NoIntent
    /\ NoParse
    /\ effects = <<>> /\ documents = {} /\ nextId = 0 /\ fetchLog = <<>>
    /\ \/ /\ pc = "idle"
          /\ csvFiles \in {<<>>, <<[url |-> UrlA, name |-> "a.csv"],
                                  [url |-> UrlB, name |-> "b.csv"]>>}
          /\ request = Request(Undefined, <<>>, <<>>, DefaultLimit, 0)
          /\ storage = Fetched(EmptyContent)
          /\ session \in {"", "user"}
          /\ bucket \in Buckets
          /\ \E first \in FirstRequests, second \in SecondRequests :
                calls = [c \in CallIds |-> IF c = "analyzeCSV 1" THEN Call(first)
                                           ELSE Call(second)]
       \/ /\ pc = "start"
          /\ csvFiles \in CsvFileLists
          /\ request \in ResolveRequests
          /\ storage \in {FetchError("File not found in R2 bucket"),
                           Fetched(EmptyContent), Fetched(HeaderOnly),
                           Fetched(TextAndNumber)}
          /\ session = "" /\ bucket = <<>> /\ calls = <<>>

queryVars == <<pc, request, storage, actualFileUrl, result>>

otherVars ==
    <<csvFiles, column, stats, columnStats, recommendation, analyzeRequest, chart,
      intentArgs, intent, parseVars, session, bucket>>

\* execute() up to the return of the "No CSV file available" failure
AnalyzeNoFileAvailable(c) ==
    /\ calls[c].pc = "start"
    /\ NoFile(calls[c].request.fileUrl, csvFiles)
    /\ calls' = [calls EXCEPT ![c].pc = "returned", ![c].result = AnalyzeNoFile]
    /\ effects' = Append(effects, Effect(c, "return", AnalyzeNoFile))
    /\ UNCHANGED <<queryVars, otherVars, documents, nextId, fetchLog>>

\* execute() up to the await of fetchCSVContent(actualFileUrl)
AnalyzeFetch(c) ==
    /\ calls[c].pc = "start"
    /\ ~NoFile(calls[c].request.fileUrl, csvFiles)
    /\ LET url == ResolveFileUrl(calls[c].request.fileUrl, csvFiles)
       IN  /\ calls' = [calls EXCEPT ![c].pc = "fetching", ![c].actualFileUrl = url]
           /\ fetchLog' = Append(fetchLog, FetchCall(c, url))
    /\ UNCHANGED <<queryVars, otherVars, effects, documents, nextId>>

\* the fetch rejected: the outer catch block returns the failure
AnalyzeFetchFailed(c) ==
    /\ calls[c].pc = "fetching"
    /\ LET url == calls[c].actualFileUrl.str
           fetched == fetchCSVContent(url, Answer(url))
           after == Caught(calls[c], fetched.error)
       IN  /\ ~fetched.ok
           /\ calls' = [calls EXCEPT ![c] = after]
           /\ effects' = Append(effects, Effect(c, "return", after.result))
    /\ UNCHANGED <<queryVars, otherVars, documents, nextId, fetchLog>>

\* the fetch resolved: parse, analyse, write the parts, start the save, return
AnalyzeFetched(c) ==
    /\ calls[c].pc = "fetching"
    /\ LET url == calls[c].actualFileUrl.str
           fetched == fetchCSVContent(url, Answer(url))
       IN  /\ fetched.ok
           /\ \E prepared \in {Prepared(calls[c].request, fetched.content)} :
              \E accepted \in 0..Len(PartTypes) :
              \E run \in {Run(c, calls[c], prepared, accepted, nextId, session)} :
                /\ calls' = [calls EXCEPT ![c] = run.call]
                /\ effects' = Append(Written(effects, run.entries),
                                     Effect(c, "return", run.call.result))
                /\ nextId' = nextId + run.ids
    /\ UNCHANGED <<queryVars, otherVars, documents, fetchLog>>

\* saveDocument resolved: .then(() => {})
SaveResolved(c) ==
    /\ calls[c].pc = "returned"
    /\ calls[c].saving # <<>>
    /\ documents' = documents \cup {calls[c].saving[1]}
    /\ calls' = [calls EXCEPT ![c].saving = <<>>]
    /\ effects' = Append(effects, Effect(c, "saved", calls[c].saving[1]))
    /\ UNCHANGED <<queryVars, otherVars, nextId, fetchLog>>

\* saveDocument rejected: .catch logs the error
SaveRejected(c) ==
    /\ calls[c].pc = "returned"
    /\ calls[c].saving # <<>>
    /\ calls' = [calls EXCEPT ![c].saving = <<>>]
    /\ effects' = Append(effects, Effect(c, "console.error", calls[c].saving[1]))
    /\ UNCHANGED <<queryVars, otherVars, documents, nextId, fetchLog>>

NextTools ==
    \/ QueryNoFile
    \/ QueryFetch
    \/ QueryFetched
    \/ QueryFetchFailed
    \/ \E c \in DOMAIN calls : AnalyzeNoFileAvailable(c)
    \/ \E c \in DOMAIN calls : AnalyzeFetch(c)
    \/ \E c \in DOMAIN calls : AnalyzeFetchFailed(c)
    \/ \E c \in DOMAIN calls : AnalyzeFetched(c)
    \/ \E c \in DOMAIN calls : SaveResolved(c)
    \/ \E c \in DOMAIN calls : SaveRejected(c)

SpecTools == InitTools /\ [][NextTools]_vars

(***************************************************************************)
(* Claims on the two tools.                                                *)
(***************************************************************************)
\* the calls of fetchCSVContent one invocation made
FetchesOf(invocation) == SelectSeq(fetchLog, LAMBDA f : f.tool = invocation)

\* the positions in effects of the entries of call c of the given kinds
Idx(c, kinds) ==
    {i \in 1..Len(effects) : effects[i].call = c /\ effects[i].kind \in kinds}

\* what the data stream received
Stream == SelectSeq(effects, LAMBDA e : e.kind \in Range(PartTypes))

\* the parts call c wrote, in order
PartsOf(c) == SelectSeq(Stream, LAMBDA e : e.call = c)

Returned(c) == calls[c].pc = "returned"

\* what the fetch of call c gives
FetchedBy(c) ==
    fetchCSVContent(calls[c].actualFileUrl.str, Answer(calls[c].actualFileUrl.str))

FetchMessages ==
    {"Error fetching CSV from R2: " \o m :
        m \in {"Unsupported URL format", "No key parameter found in URL",
               "Could not extract key from R2 URL", "File not found in R2 bucket",
               "The specified key does not exist.", "CSV file is empty"}}

\* C24: an invocation of either tool calls fetchCSVContent at most once;
\* when the fetch fails the invocation returns once, with success false and
\* a message naming the failure, and does not fetch again.
C24_OneFetchOneFailure ==
    /\ Len(FetchesOf("queryCSVRows")) <= 1
    /\ (pc = "done" /\ fetchLog # <<>>
            /\ ~fetchCSVContent(actualFileUrl.str, storage).ok) =>
           (~result.success /\ result.error \in FetchMessages)
    /\ \A c \in DOMAIN calls :
        /\ Len(FetchesOf(c)) <= 1
        /\ Cardinality(Idx(c, {"return"})) <= 1
        /\ Cardinality(Idx(c, {"return"})) = 1 <=> Returned(c)
        /\ (Returned(c) /\ FetchesOf(c) # <<>> /\ ~FetchedBy(c).ok) =>
              /\ ~calls[c].result.success
              /\ calls[c].result.error \in FetchMessages
              /\ calls[c].result.message = "Failed to analyze CSV: " \o calls[c].result.error

\* the first call returned the failure of the storage after its one fetch
\* while the second call fetched its own file
C24_Witness ==
    /\ DOMAIN calls = CallIds
    /\ Returned("analyzeCSV 1")
    /\ calls["analyzeCSV 1"].result.error =
           "Error fetching CSV from R2: File not found in R2 bucket"
    /\ Len(FetchesOf("analyzeCSV 1")) = 1
    /\ Len(fetchLog) = 2

Succeeded(c) == Returned(c) /\ calls[c].result.success

\* C25: the type of the chart specification is the caller's chartType when
\* that is not "auto", else the recommended type; it is one of column, bar,
\* line, pie, histogram, area, scatter, and the result reports the same
\* value as chartType.
C25_ChartTypeChosen ==
    \A c \in DOMAIN calls :
        Succeeded(c) =>
            LET config == PartsOf(c)[4].data.json
                res == calls[c].result
            IN  /\ PartsOf(c)[4].kind = "data-chartDelta"
                /\ config.type = IF calls[c].request.chartType # "auto"
                                 THEN calls[c].request.chartType
                                 ELSE res.analysis.recommendations.suggestedChartType
                /\ config.type \in {"column", "bar", "line", "pie", "histogram",
                                    "area", "scatter"}
                /\ res.chartType = config.type

\* a pie chart was asked for where a column chart is recommended
C25_Witness ==
    /\ DOMAIN calls = CallIds
    /\ Succeeded("analyzeCSV 1")
    /\ calls["analyzeCSV 1"].request.chartType = "pie"
    /\ calls["analyzeCSV 1"].result.analysis.recommendations.suggestedChartType = "column"
    /\ calls["analyzeCSV 1"].result.chartType = "pie"

\* C26: when two invocations write to one stream, the parts of each are one
\* contiguous block, however the invocations interleave at the fetch, and
\* the chart specification of each is the one of its own file and arguments.
C26_BlocksDoNotInterleave ==
    \A stream \in {Stream} : \A c \in DOMAIN calls :
        \A idx \in {{i \in 1..Len(stream) : stream[i].call = c}} :
            /\ \A i \in idx : \A j \in idx : \A k \in i..j : k \in idx
            /\ \A i \in idx :
                  stream[i].kind = "data-chartDelta" =>
                      stream[i].data =
                          Prepared(calls[c].request,
                                   FetchedBy(c).content).chartConfigString

\* the call that fetched first wrote its five parts after the five parts of
\* the other call
C26_Witness ==
    /\ Len(fetchLog) = 2
    /\ fetchLog[1].tool = "analyzeCSV 1"
    /\ Len(Stream) = Len(PartTypes) + Len(PartTypes)
    /\ Stream[1].call = "analyzeCSV 2"
    /\ Stream[Len(Stream)].call = "analyzeCSV 1"

\* C27: a successful invocation writes exactly one part of each kind, in the
\* order data-id, data-title, data-kind, data-chartDelta, data-finish; the
\* save starts only after data-finish, with the artifact id and the chart
\* text of the parts; the result is returned before the save ends.
C27_PartsThenSaveThenReturn ==
    \A c \in DOMAIN calls :
        Succeeded(c) =>
            /\ [i \in 1..Len(PartsOf(c)) |-> PartsOf(c)[i].kind] = PartTypes
            /\ \A s \in Idx(c, {"saveDocument"}) :
                  /\ \A f \in Idx(c, {"data-finish"}) : f < s
                  /\ effects[s].data.id = PartsOf(c)[1].data
                  /\ effects[s].data.content = PartsOf(c)[4].data
                  /\ \A r \in Idx(c, {"return"}) : s < r
            /\ \A e \in Idx(c, {"saved", "console.error"}) :
                  /\ Idx(c, {"saveDocument"}) # {}
                  /\ \A r \in Idx(c, {"return"}) : r < e

\* the first call has returned its result and its save is still under way
C27_Witness ==
    /\ DOMAIN calls = CallIds
    /\ Succeeded("analyzeCSV 1")
    /\ calls["analyzeCSV 1"].saving # <<>>
    /\ Idx("analyzeCSV 1", {"saveDocument"}) # {}
    /\ Idx("analyzeCSV 1", {"saved", "console.error"}) = {}

\* the invocation failed before the chart was generated
FailedBeforeChart(c) ==
    /\ Returned(c)
    /\ IF FetchesOf(c) = <<>> THEN TRUE
       ELSE IF ~FetchedBy(c).ok THEN TRUE
       ELSE parseCSV(FetchedBy(c).content).threw

\* C28: an invocation that fails before chart generation (no file, fetch
\* error, parse error) writes nothing to the stream and starts no save; it
\* only returns a result with success false.
C28_EarlyFailureWritesNothing ==
    \A c \in DOMAIN calls :
        FailedBeforeChart(c) =>
            /\ PartsOf(c) = <<>>
            /\ Idx(c, {"saveDocument", "saved", "console.error"}) = {}
            /\ calls[c].saving = <<>>
            /\ ~calls[c].result.success
            /\ Cardinality(Idx(c, {"return"})) = 1

\* the first call failed on a file without data rows; the stream holds the
\* parts of the second call only
C28_Witness ==
    /\ DOMAIN calls = CallIds
    /\ Returned("analyzeCSV 1")
    /\ calls["analyzeCSV 1"].result.error = "CSV file is empty or could not be parsed"
    /\ Len(Stream) = Len(PartTypes)

\* C29: saving never changes the outcome: without a user id the chart is
\* streamed and no save is attempted; a failed save is only logged; in both
\* cases the result has success true and the artifact id.
C29_SaveNeverChangesOutcome ==
    \A c \in DOMAIN calls :
        (Returned(c) /\ Len(PartsOf(c)) = Len(PartTypes)) =>
            /\ calls[c].result.success
            /\ calls[c].result.artifactId = PartsOf(c)[1].data
            /\ \A r \in Idx(c, {"return"}) : effects[r].data = calls[c].result
            /\ session = "" =>
                  (Idx(c, {"saveDocument"}) = {} /\ calls[c].saving = <<>>
                       /\ documents = {})
            /\ session # "" => Cardinality(Idx(c, {"saveDocument"})) = 1

\* the save of the first call failed and its result is the success
C29_Witness ==
    /\ DOMAIN calls = CallIds
    /\ Idx("analyzeCSV 1", {"console.error"}) # {}
    /\ calls["analyzeCSV 1"].result.success
    /\ calls["analyzeCSV 1"].result.artifactId # <<>>
    /\ documents = {}

\* what the claim says an invocation with this fileUrl fetches
ClaimedFetches(invocation, fileUrl) ==
    IF ~BlankUrl(fileUrl) THEN <<FetchCall(invocation, fileUrl)>>
    ELSE IF csvFiles # <<>>
    THEN <<FetchCall(invocation, Str(csvFiles[Len(csvFiles)].url))>>
    ELSE <<>>

\* C30: in both tools the file is resolved before any fetch: a non-blank
\* fileUrl is used as given, a missing or blank one is replaced by the last
\* entry of csvFiles, and when it is blank and csvFiles is empty the tool
\* fails with "No CSV file available" without any fetch.
C30_FileResolvedBeforeFetch ==
    /\ pc \in {"fetching", "done"} =>
          /\ FetchesOf("queryCSVRows") = ClaimedFetches("queryCSVRows", request.fileUrl)
          /\ (pc = "done" /\ BlankUrl(request.fileUrl) /\ csvFiles = <<>>) =>
                result.error = "No CSV file available"
    /\ \A c \in DOMAIN calls :
          calls[c].pc \in {"fetching", "returned"} =>
              /\ FetchesOf(c) = ClaimedFetches(c, calls[c].request.fileUrl)
              /\ (Returned(c) /\ BlankUrl(calls[c].request.fileUrl) /\ csvFiles = <<>>) =>
                    calls[c].result.error = "No CSV file available"

=============================================================================
